---- MODULE Spec2Model ----
(***************************************************************************)
(* Model of the cell-boundary pipeline of calculate-cell-boundary:         *)
(* rectangles in, boundary line segments out.                              *)
(*                                                                         *)
(* Numbers.  The source computes in IEEE doubles.  The model draws the     *)
(* input coordinates from the integers and computes in exact fixed point   *)
(* with SCALE model units per input unit: gap midpoints are half integers  *)
(* and the eleven sample points of distanceFromSegmentToCell are           *)
(* twentieths, so every coordinate the pipeline produces is an integer     *)
(* number of model units.  The tolerance tests of the source (0.001 on     *)
(* coordinates, 0.5 on rect adjacency, 0.0001 on determinants) are kept as *)
(* comparisons, scaled to model units.  A distance is kept as its square   *)
(* (sqrt is monotone and distances are only compared).                     *)
(***************************************************************************)
EXTENDS Integers, Sequences, FiniteSets, TLC

\* ------------------------------------------------------------------------
\* Bounds of the model
\* ------------------------------------------------------------------------
\* rectangle corners of the general inputs lie on 0..MaxX by 0..MaxY
MaxX == 3
MaxY == 3
\* the longest rectangle list of the general inputs
MaxRects == 3
\* rectangle corners of the two-rectangle inputs lie on 0..PairCoord squared
PairCoord == 4
\* the number of calls a caller makes in a row
MaxCalls == 3
StairX == 5
TrioX == 5
TrioY == 3
GrowCoord == 4
MaxPasses == 4
\* the caller moves its rectangles by -MaxShift, 0 or 1 along each axis
MaxShift == 2

\* ------------------------------------------------------------------------
\* Number representation
\* ------------------------------------------------------------------------
SCALE == 20
Infinity == 1000000
NegInfinity == 0 - Infinity
numSamples == 10

\* POINT_COMPARISON_TOLERANCE = 0.001 = 1 / TOLERANCE_INV input units
TOLERANCE_INV == 1000
\* the determinant threshold 0.0001 = 1 / DENOM_EPS_INV square input units
DENOM_EPS_INV == 10000

Min2(a, b) == IF a <= b THEN a ELSE b
Max2(a, b) == IF a >= b THEN a ELSE b
Abs(a) == IF a < 0 THEN 0 - a ELSE a

\* a - b on doubles, where a or b may be +-Infinity (finite values stay exact)
Sub(a, b) ==
  IF a = Infinity \/ b = NegInfinity THEN Infinity
  ELSE IF a = NegInfinity \/ b = Infinity THEN NegInfinity
  ELSE a - b

\* |d| < POINT_COMPARISON_TOLERANCE, for a difference d in model units
WithinTol(d) == Abs(d) * TOLERANCE_INV < SCALE
\* d > POINT_COMPARISON_TOLERANCE, for a difference d in model units
ExceedsTol(d) == d * TOLERANCE_INV > SCALE

Range(s) == {s[i] : i \in DOMAIN s}

RECURSIVE SetToSortedSeq(_)
\* Array.from(set).sort((a, b) => a - b)
SetToSortedSeq(S) ==
  IF S = {} THEN <<>>
  ELSE LET m == CHOOSE x \in S : \A y \in S : x <= y
       IN <<m>> \o SetToSortedSeq(S \ {m})

\* Array.prototype.filter
Filter(s, Test(_)) ==
  LET RECURSIVE SelectFrom(_)
      SelectFrom(k) ==
        IF k > Len(s) THEN <<>>
        ELSE (IF Test(s[k]) THEN <<s[k]>> ELSE <<>>) \o SelectFrom(k + 1)
  IN SelectFrom(1)

\* Array.prototype.sort with a consistent comparator: stable, ascending
StableSort(s, Less(_, _)) ==
  LET RECURSIVE InsertSorted(_, _)
      InsertSorted(t, e) ==
        IF t = <<>> THEN <<e>>
        ELSE IF Less(e, t[Len(t)])
               THEN Append(InsertSorted(SubSeq(t, 1, Len(t) - 1), e), t[Len(t)])
               ELSE Append(t, e)
      RECURSIVE SortPrefix(_)
      SortPrefix(n) ==
        IF n = 0 THEN <<>> ELSE InsertSorted(SortPrefix(n - 1), s[n])
  IN SortPrefix(Len(s))

RECURSIVE Concat(_)
Concat(ss) == IF ss = <<>> THEN <<>> ELSE Head(ss) \o Concat(Tail(ss))

Pt(px, py) == [x |-> px, y |-> py]

\* ------------------------------------------------------------------------
\* The entry point (src/unnamed/part_007): conversion of the caller's rectangles
\* ------------------------------------------------------------------------
\* {minX, minY, maxX, maxY} -> {x, y, width, height}, in model units
toCellContent(c) ==
  [x |-> c.minX * SCALE, y |-> c.minY * SCALE,
   width |-> (c.maxX - c.minX) * SCALE, height |-> (c.maxY - c.minY) * SCALE]

\* ------------------------------------------------------------------------
\* lib/computeBoundsFromCellContents.ts
\* ------------------------------------------------------------------------
RECURSIVE boundsLoop(_, _, _)
boundsLoop(cells, k, b) ==
  IF k > Len(cells) THEN b
  ELSE boundsLoop(cells, k + 1,
         [minX |-> Min2(b.minX, cells[k].minX), minY |-> Min2(b.minY, cells[k].minY),
          maxX |-> Max2(b.maxX, cells[k].maxX), maxY |-> Max2(b.maxY, cells[k].maxY)])

computeBoundsFromCellContents(cells) ==
  boundsLoop(cells, 1,
    [minX |-> Infinity, minY |-> Infinity, maxX |-> NegInfinity, maxY |-> NegInfinity])

\* ------------------------------------------------------------------------
\* lib/computeMidlines.ts
\* ------------------------------------------------------------------------
\* pairMidlines without the symmetric case: the gap is always taken to
\* run from cell1 to cell2
pairMidlinesOneWay(cells, W, H, i, j) ==
  LET cell1 == cells[i]
      cell2 == cells[j]
      cell1Right == cell1.x + cell1.width
      cell2Right == cell2.x + cell2.width
      cell1Bottom == cell1.y + cell1.height
      cell2Bottom == cell2.y + cell2.height
      hasHorizontalGap == cell1Right < cell2.x \/ cell2Right < cell1.x
      midX == (cell1Right + cell2.x) \div 2
      hasVerticalGap == cell1Bottom < cell2.y \/ cell2Bottom < cell1.y
      midY == (cell1Bottom + cell2.y) \div 2
  IN (IF hasHorizontalGap
        THEN <<[start |-> Pt(midX, 0), end |-> Pt(midX, H),
                cellIds |-> <<i - 1, j - 1>>, type |-> "vertical"]>>
        ELSE <<>>)
     \o
     (IF hasVerticalGap
        THEN <<[start |-> Pt(0, midY), end |-> Pt(W, midY),
                cellIds |-> <<i - 1, j - 1>>, type |-> "horizontal"]>>
        ELSE <<>>)

\* pairMidlines with a gap of width zero counted as a gap
pairMidlinesTouching(cells, W, H, i, j) ==
  LET cell1 == cells[i]
      cell2 == cells[j]
      cell1Right == cell1.x + cell1.width
      cell2Right == cell2.x + cell2.width
      cell1Bottom == cell1.y + cell1.height
      cell2Bottom == cell2.y + cell2.height
      hasHorizontalGap == cell1Right <= cell2.x \/ cell2Right <= cell1.x
      midX == IF cell1Right <= cell2.x THEN (cell1Right + cell2.x) \div 2
              ELSE (cell2Right + cell1.x) \div 2
      hasVerticalGap == cell1Bottom <= cell2.y \/ cell2Bottom <= cell1.y
      midY == IF cell1Bottom <= cell2.y THEN (cell1Bottom + cell2.y) \div 2
              ELSE (cell2Bottom + cell1.y) \div 2
  IN (IF hasHorizontalGap
        THEN <<[start |-> Pt(midX, 0), end |-> Pt(midX, H),
                cellIds |-> <<i - 1, j - 1>>, type |-> "vertical"]>>
        ELSE <<>>)
     \o
     (IF hasVerticalGap
        THEN <<[start |-> Pt(0, midY), end |-> Pt(W, midY),
                cellIds |-> <<i - 1, j - 1>>, type |-> "horizontal"]>>
        ELSE <<>>)

\* the midlines of the pair (i, j), i < j (0-based cell indices c1, c2)
pairMidlines(cells, W, H, i, j) ==
  LET cell1 == cells[i]
      cell2 == cells[j]
      cell1Right == cell1.x + cell1.width
      cell2Right == cell2.x + cell2.width
      cell1Bottom == cell1.y + cell1.height
      cell2Bottom == cell2.y + cell2.height
      hasHorizontalGap == cell1Right < cell2.x \/ cell2Right < cell1.x
      midX == IF cell1Right < cell2.x THEN (cell1Right + cell2.x) \div 2
              ELSE (cell2Right + cell1.x) \div 2
      hasVerticalGap == cell1Bottom < cell2.y \/ cell2Bottom < cell1.y
      midY == IF cell1Bottom < cell2.y THEN (cell1Bottom + cell2.y) \div 2
              ELSE (cell2Bottom + cell1.y) \div 2
  IN (IF hasHorizontalGap
        THEN <<[start |-> Pt(midX, 0), end |-> Pt(midX, H),
                cellIds |-> <<i - 1, j - 1>>, type |-> "vertical"]>>
        ELSE <<>>)
     \o
     (IF hasVerticalGap
        THEN <<[start |-> Pt(0, midY), end |-> Pt(W, midY),
                cellIds |-> <<i - 1, j - 1>>, type |-> "horizontal"]>>
        ELSE <<>>)

RECURSIVE midlinesLoop(_, _, _, _, _)
midlinesLoop(cells, W, H, i, j) ==
  IF i > Len(cells) THEN <<>>
  ELSE IF j > Len(cells) THEN midlinesLoop(cells, W, H, i + 1, i + 2)
  ELSE pairMidlines(cells, W, H, i, j) \o midlinesLoop(cells, W, H, i, j + 1)

\* midline ids are the positions in the array (midlineId++)
computeMidlines(cells, W, H) ==
  LET ms == midlinesLoop(cells, W, H, 1, 2)
  IN [k \in 1..Len(ms) |->
        [id |-> k - 1, start |-> ms[k].start, end |-> ms[k].end,
         cellIds |-> ms[k].cellIds, type |-> ms[k].type]]

\* ------------------------------------------------------------------------
\* utils (src/unnamed/part_004) and lib/computeIntersections.ts
\* ------------------------------------------------------------------------
lineDenom(p1, p2, p3, p4) == (p1.x - p2.x) * (p3.y - p4.y) - (p1.y - p2.y) * (p3.x - p4.x)
lineTNum(p1, p2, p3, p4) == (p1.x - p3.x) * (p3.y - p4.y) - (p1.y - p3.y) * (p3.x - p4.x)
lineUNum(p1, p2, p3, p4) == 0 - ((p1.x - p2.x) * (p1.y - p3.y) - (p1.y - p2.y) * (p1.x - p3.x))

\* 0 <= n/d <= 1 for d # 0
UnitFraction(n, d) == IF d > 0 THEN 0 <= n /\ n <= d ELSE d <= n /\ n <= 0

lineSegmentIntersection(p1, p2, p3, p4) ==
  LET denom == lineDenom(p1, p2, p3, p4)
  IN ~(Abs(denom) * DENOM_EPS_INV < SCALE * SCALE)
     /\ UnitFraction(lineTNum(p1, p2, p3, p4), denom)
     /\ UnitFraction(lineUNum(p1, p2, p3, p4), denom)

\* the intersection point of two midlines that do intersect: x1 + t * (x2 - x1)
lineIntersectionPoint(line1, line2) ==
  LET denom == lineDenom(line1.start, line1.end, line2.start, line2.end)
      tnum == lineTNum(line1.start, line1.end, line2.start, line2.end)
      \* the quotient n / denom, which is exact for axis-parallel midlines
      Quot(n) == IF denom > 0 THEN n \div denom ELSE (0 - n) \div (0 - denom)
  IN Pt(line1.start.x + Quot(tnum * (line1.end.x - line1.start.x)),
        line1.start.y + Quot(tnum * (line1.end.y - line1.start.y)))

lineIntersection(line1, line2) ==
  IF lineSegmentIntersection(line1.start, line1.end, line2.start, line2.end)
  THEN <<lineIntersectionPoint(line1, line2)>>
  ELSE <<>>

RECURSIVE intersectionsLoop(_, _, _)
intersectionsLoop(midlines, i, j) ==
  IF i > Len(midlines) THEN <<>>
  ELSE IF j > Len(midlines) THEN intersectionsLoop(midlines, i + 1, i + 2)
  ELSE LET hit == lineIntersection(midlines[i], midlines[j])
       IN (IF hit # <<>>
             THEN <<[point |-> hit[1], midlineIds |-> <<midlines[i].id, midlines[j].id>>]>>
             ELSE <<>>)
          \o intersectionsLoop(midlines, i, j + 1)

computeIntersections(midlines) == intersectionsLoop(midlines, 1, 2)

\* squared distance from a point to the closest point of a cell
distanceToCell(point, cell) ==
  LET closestX == Max2(cell.x, Min2(point.x, cell.x + cell.width))
      closestY == Max2(cell.y, Min2(point.y, cell.y + cell.height))
      dx == point.x - closestX
      dy == point.y - closestY
  IN dx * dx + dy * dy

\* Math.min over F(k), k = lo..hi (Infinity when there is none)
MinOver(F(_), lo, hi) ==
  LET RECURSIVE MinFrom(_)
      MinFrom(k) == IF k > hi THEN Infinity ELSE Min2(F(k), MinFrom(k + 1))
  IN MinFrom(lo)

distanceFromSegmentToCell(start, end, cell) ==
  MinOver(LAMBDA i :
            distanceToCell(Pt(start.x + (i * (end.x - start.x)) \div numSamples,
                              start.y + (i * (end.y - start.y)) \div numSamples), cell),
          0, numSamples)

segmentDistanceToAnyCell(start, end, cells) ==
  MinOver(LAMBDA k : distanceFromSegmentToCell(start, end, cells[k]), 1, Len(cells))

\* ------------------------------------------------------------------------
\* lib/computeSegments.ts
\* ------------------------------------------------------------------------
midlineSegments(midline, intersections, cells) ==
  LET hits == Filter(intersections,
                     LAMBDA int : midline.id \in Range(int.midlineIds))
      pts == [k \in 1..Len(hits) |-> hits[k].point]
      sorted == StableSort(pts,
                  LAMBDA a, b : IF midline.type = "vertical" THEN a.y < b.y ELSE a.x < b.x)
      allPoints == <<midline.start>> \o sorted \o <<midline.end>>
  IN [i \in 1..(Len(allPoints) - 1) |->
        [start |-> allPoints[i], end |-> allPoints[i + 1],
         fromCellIds |-> midline.cellIds,
         distanceToAnyCell |-> segmentDistanceToAnyCell(allPoints[i], allPoints[i + 1], cells)]]

computeSegments(midlines, intersections, cells) ==
  Concat([k \in 1..Len(midlines) |-> midlineSegments(midlines[k], intersections, cells)])

\* ------------------------------------------------------------------------
\* utils (src/unnamed/part_004: lineIntersectsRectangle), rectUtils (src/unnamed/part_003)
\* ------------------------------------------------------------------------
\* |a - b| < POINT_COMPARISON_TOLERANCE, for a and b in model units
Near(a, b) == WithinTol(a - b)

pointInRect(p, rect) ==
  /\ p.x >= rect.x /\ p.x <= rect.x + rect.width
  /\ p.y >= rect.y /\ p.y <= rect.y + rect.height

\* lineIntersectsRectangle without the test of the four edges
lineIntersectsRectangleEndsOnly(lineStart, lineEnd, rect) ==
  pointInRect(lineStart, rect) \/ pointInRect(lineEnd, rect)

lineIntersectsRectangle(lineStart, lineEnd, rect) ==
  LET x == rect.x
      y == rect.y
      width == rect.width
      height == rect.height
      rectEdges == <<[start |-> Pt(x, y), end |-> Pt(x + width, y)],
                     [start |-> Pt(x + width, y), end |-> Pt(x + width, y + height)],
                     [start |-> Pt(x + width, y + height), end |-> Pt(x, y + height)],
                     [start |-> Pt(x, y + height), end |-> Pt(x, y)]>>
  IN \/ pointInRect(lineStart, rect)
     \/ pointInRect(lineEnd, rect)
     \/ \E k \in 1..4 :
          lineSegmentIntersection(lineStart, lineEnd, rectEdges[k].start, rectEdges[k].end)

edgeToEdgeDistance(a, b) ==
  LET dx == Max2(Max2(a.x - (b.x + b.width), b.x - (a.x + a.width)), 0)
      dy == Max2(Max2(a.y - (b.y + b.height), b.y - (a.y + a.height)), 0)
  IN dx + dy

\* |d| < tol, the default tol = 0.5 = 1 / ADJACENT_TOL_INV input units
ADJACENT_TOL_INV == 2
WithinAdjacentTol(d) == Abs(d) * ADJACENT_TOL_INV < SCALE

areAdjacent(a, b) ==
  LET shareVertical ==
        /\ \/ WithinAdjacentTol(a.x + a.width - b.x)
           \/ WithinAdjacentTol(b.x + b.width - a.x)
        /\ ~(a.y + a.height <= b.y \/ b.y + b.height <= a.y)
      shareHorizontal ==
        /\ \/ WithinAdjacentTol(a.y + a.height - b.y)
           \/ WithinAdjacentTol(b.y + b.height - a.y)
        /\ ~(a.x + a.width <= b.x \/ b.x + b.width <= a.x)
  IN shareVertical \/ shareHorizontal

rectsOverlap(a, b) ==
  /\ a.x < b.x + b.width
  /\ a.x + a.width > b.x
  /\ a.y < b.y + b.height
  /\ a.y + a.height > b.y

\* offsetPoint that moves the point along x only
offsetPointAlongX(p, offsetX, offsetY) == Pt(p.x + offsetX, p.y)

offsetPoint(p, offsetX, offsetY) == Pt(p.x + offsetX, p.y + offsetY)

offsetLine(l, offsetX, offsetY) ==
  [start |-> offsetPoint(l.start, offsetX, offsetY),
   end |-> offsetPoint(l.end, offsetX, offsetY)]

\* ------------------------------------------------------------------------
\* buildGrid (src/unnamed/part_009)
\* ------------------------------------------------------------------------
validFilter(allSegs, cells) ==
  Filter(allSegs, LAMBDA segment :
    ~(\E k \in 1..Len(cells) : lineIntersectsRectangle(segment.start, segment.end, cells[k])))

segIsVertical(seg) == Near(seg.start.x, seg.end.x)

gridXs(valid, W) ==
  SetToSortedSeq({0, W} \cup {valid[k].start.x : k \in {i \in 1..Len(valid) : segIsVertical(valid[i])}})

gridYs(valid, H) ==
  SetToSortedSeq({0, H} \cup {valid[k].start.y : k \in {i \in 1..Len(valid) : ~segIsVertical(valid[i])}})

\* snapDown that takes the first grid line whatever lies below lo
snapDownFirst(xs, lo) == xs[1]

\* xs.filter((v) => v <= lo).pop(), or the first grid line when there is none
snapDown(xs, lo) ==
  LET below == Filter(xs, LAMBDA v : v <= lo)
  IN IF below = <<>> THEN xs[1] ELSE below[Len(below)]

\* xs.find((v) => v >= hi), or the last grid line when there is none
snapUp(xs, hi) ==
  LET above == Filter(xs, LAMBDA v : v >= hi)
  IN IF above = <<>> THEN xs[Len(xs)] ELSE above[1]

containingRect(cell, idx, xs, ys) ==
  LET left == snapDown(xs, cell.x)
      right == snapUp(xs, cell.x + cell.width)
      top == snapDown(ys, cell.y)
      bot == snapUp(ys, cell.y + cell.height)
  IN [cellId |-> <<"contain", idx>>, x |-> left, y |-> top,
      width |-> Max2(0, right - left), height |-> Max2(0, bot - top)]

\* the candidate cells of the coordinate grid, column by column, each with
\* the id the running counter gridRectId gives it
RECURSIVE gridCandidates(_, _, _, _, _)
gridCandidates(xs, ys, xi, yi, gridRectId) ==
  IF xi > Len(xs) - 1 THEN <<>>
  ELSE IF Sub(xs[xi + 1], xs[xi]) <= 0 THEN gridCandidates(xs, ys, xi + 1, 1, gridRectId)
  ELSE IF yi > Len(ys) - 1 THEN gridCandidates(xs, ys, xi + 1, 1, gridRectId)
  ELSE IF Sub(ys[yi + 1], ys[yi]) <= 0 THEN gridCandidates(xs, ys, xi, yi + 1, gridRectId)
  ELSE <<[cellId |-> <<"gridRect", gridRectId>>, x |-> xs[xi], y |-> ys[yi],
          width |-> Sub(xs[xi + 1], xs[xi]), height |-> Sub(ys[yi + 1], ys[yi])]>>
       \o gridCandidates(xs, ys, xi, yi + 1, gridRectId + 1)

sameBox(g, r) == g.x = r.x /\ g.y = r.y /\ g.width = r.width /\ g.height = r.height

RECURSIVE pushContaining(_, _, _)
\* cellContainingRects.forEach: push r unless a grid rect has the same key
pushContaining(grid, conts, k) ==
  IF k > Len(conts) THEN grid
  ELSE pushContaining(
         IF \E g \in 1..Len(grid) : sameBox(grid[g], conts[k]) THEN grid
         ELSE Append(grid, conts[k]),
         conts, k + 1)

buildGrid(allSegs, cells, W, H) ==
  LET valid == validFilter(allSegs, cells)
      xs == gridXs(valid, W)
      ys == gridYs(valid, H)
      conts == [k \in 1..Len(cells) |-> containingRect(cells[k], k - 1, xs, ys)]
      free == Filter(gridCandidates(xs, ys, 1, 1, 0), LAMBDA candidate :
                ~(\E k \in 1..Len(cells) : rectsOverlap(candidate, cells[k])))
  IN [validSegments |-> valid, cellContainingRects |-> conts,
      gridRects |-> pushContaining(free, conts, 1), xs |-> xs, ys |-> ys]

\* ------------------------------------------------------------------------
\* lib/mergeGrid.ts
\* ------------------------------------------------------------------------
\* groupId: number | null
Null == -1

\* does the valid segment lie on one of the four edges of the rect r
onBoundary(segment, r) ==
  LET x == r.x
      y == r.y
      width == r.width
      height == r.height
      sx1 == Min2(segment.start.x, segment.end.x)
      sx2 == Max2(segment.start.x, segment.end.x)
      sy1 == Min2(segment.start.y, segment.end.y)
      sy2 == Max2(segment.start.y, segment.end.y)
      segmentIsHorizontal == WithinTol(segment.start.y - segment.end.y)
      segmentIsVertical == WithinTol(segment.start.x - segment.end.x)
  IN IF segmentIsHorizontal
       THEN /\ (WithinTol(sy1 - y) \/ WithinTol(sy1 - (y + height)))
            /\ ExceedsTol(x + width - sx1)
            /\ ExceedsTol(sx2 - x)
            /\ ExceedsTol(Min2(sx2, x + width) - Max2(sx1, x))
     ELSE IF segmentIsVertical
       THEN /\ (WithinTol(sx1 - x) \/ WithinTol(sx1 - (x + width)))
            /\ ExceedsTol(y + height - sy1)
            /\ ExceedsTol(sy2 - y)
            /\ ExceedsTol(Min2(sy2, y + height) - Max2(sy1, y))
     ELSE FALSE

minDistanceForRect(r, valid) ==
  MinOver(LAMBDA k : IF onBoundary(valid[k], r) THEN valid[k].distanceToAnyCell ELSE Infinity,
          1, Len(valid))

toWorkRect(r, valid) ==
  [cellId |-> r.cellId, x |-> r.x, y |-> r.y, width |-> r.width, height |-> r.height,
   merged |-> FALSE, groupId |-> Null,
   minBoundingSegmentDistance |-> minDistanceForRect(r, valid)]

matchesContaining(w, contRect) ==
  /\ Near(w.x, contRect.x) /\ Near(w.y, contRect.y)
  /\ WithinTol(w.width - contRect.width)
  /\ WithinTol(w.height - contRect.height)

\* workRects.find(pred): the first index that satisfies Test, 0 when none
FindIndex(s, Test(_)) ==
  IF \E k \in 1..Len(s) : Test(s[k])
  THEN CHOOSE k \in 1..Len(s) : Test(s[k]) /\ \A j \in 1..(k - 1) : ~Test(s[j])
  ELSE 0

\* seedOne that marks the rect merged and leaves its groupId null
seedOneNoGroup(work, contRect, idx) ==
  LET wr == FindIndex(work, LAMBDA w : matchesContaining(w, contRect))
  IN IF wr # 0 THEN [work EXCEPT ![wr].merged = TRUE] ELSE work

seedOne(work, contRect, idx) ==
  LET wr == FindIndex(work, LAMBDA w : matchesContaining(w, contRect))
  IN IF wr # 0
       THEN [work EXCEPT ![wr].merged = TRUE, ![wr].groupId = idx]
       ELSE work

RECURSIVE seedLoop(_, _, _)
\* cellContainingRects.forEach((contRect, idx) => ...)
seedLoop(work, conts, k) ==
  IF k > Len(conts) THEN work ELSE seedLoop(seedOne(work, conts[k], k - 1), conts, k + 1)

\* sortByPriority without the sort: the list stays in the order of workRects
sortByPriorityNone(work, list) == list

\* the processing list holds references to work rects: indices into workRects
sortByPriority(work, list) ==
  StableSort(list, LAMBDA a, b :
    work[a].minBoundingSegmentDistance < work[b].minBoundingSegmentDistance)

unmergedIndices(work) ==
  Filter([k \in 1..Len(work) |-> k], LAMBDA k : ~work[k].merged)

neighboursOf(work, cur) ==
  Filter([k \in 1..Len(work) |-> k],
         LAMBDA k : work[k].merged /\ areAdjacent(work[cur], work[k]))

RECURSIVE bestGroupLoopLastWins(_, _, _, _, _, _, _)
\* bestGroupLoop with <= for <: among the nearest groups the last one wins
bestGroupLoopLastWins(work, cells, cur, neighbours, k, bestGroupId, minDistanceToOriginalCell) ==
  IF k > Len(neighbours) THEN bestGroupId
  ELSE LET g == work[neighbours[k]].groupId
       IN IF g = Null
            THEN bestGroupLoopLastWins(work, cells, cur, neighbours, k + 1,
                                       bestGroupId, minDistanceToOriginalCell)
          ELSE LET distance == edgeToEdgeDistance(work[cur], cells[g + 1])
               IN IF distance <= minDistanceToOriginalCell
                    THEN bestGroupLoopLastWins(work, cells, cur, neighbours, k + 1, g, distance)
                  ELSE bestGroupLoopLastWins(work, cells, cur, neighbours, k + 1,
                                             bestGroupId, minDistanceToOriginalCell)

RECURSIVE bestGroupLoop(_, _, _, _, _, _, _)
\* for (const neighbour of neighbours) ... ; returns bestGroupId
bestGroupLoop(work, cells, cur, neighbours, k, bestGroupId, minDistanceToOriginalCell) ==
  IF k > Len(neighbours) THEN bestGroupId
  ELSE LET g == work[neighbours[k]].groupId
       IN IF g = Null
            THEN bestGroupLoop(work, cells, cur, neighbours, k + 1,
                               bestGroupId, minDistanceToOriginalCell)
          ELSE LET distance == edgeToEdgeDistance(work[cur], cells[g + 1])
               IN IF distance < minDistanceToOriginalCell
                    THEN bestGroupLoop(work, cells, cur, neighbours, k + 1, g, distance)
                  ELSE IF distance = minDistanceToOriginalCell
                            /\ (bestGroupId = Null \/ g < bestGroupId)
                    THEN bestGroupLoop(work, cells, cur, neighbours, k + 1, g,
                                       minDistanceToOriginalCell)
                  ELSE bestGroupLoop(work, cells, cur, neighbours, k + 1,
                                     bestGroupId, minDistanceToOriginalCell)

\* chooseGroup without the search for the nearest original cell
chooseGroupFirst(work, cells, cur, neighbours) ==
  work[neighbours[1]].groupId

chooseGroup(work, cells, cur, neighbours) ==
  IF Len(neighbours) = 1 THEN work[neighbours[1]].groupId
  ELSE bestGroupLoop(work, cells, cur, neighbours, 1, Null, Infinity)

\* The state of the growth loop:
\*   work       workRects
\*   list       unmergedRectsProcessingList
\*   pos        position of the for loop in list (the next rect to consider)
\*   keep       keepProcessing
\*   remaining  remainingAfterPass
\*   running    the while loop has not exited

\* whileTest without keepProcessing: the loop runs while rects are unmerged
whileTestUnmerged(m) ==
  IF Len(m.list) > 0
    THEN [m EXCEPT !.keep = FALSE, !.remaining = <<>>, !.pos = 1]
    ELSE [m EXCEPT !.running = FALSE]

\* while (keepProcessing && list.length > 0) { keepProcessing = false; remaining = [] ...
whileTest(m) ==
  IF m.keep /\ Len(m.list) > 0
    THEN [m EXCEPT !.keep = FALSE, !.remaining = <<>>, !.pos = 1]
    ELSE [m EXCEPT !.running = FALSE]

startMerge(valid, grid, conts) ==
  LET work == seedLoop([k \in 1..Len(grid) |-> toWorkRect(grid[k], valid)], conts, 1)
  IN whileTest([work |-> work, list |-> sortByPriority(work, unmergedIndices(work)),
                pos |-> 1, keep |-> TRUE, remaining |-> <<>>, running |-> TRUE])

\* considerRect that also moves the merged neighbours into the chosen group
considerRectRegroup(m, cells) ==
  LET rectToConsider == m.list[m.pos]
      cur == FindIndex(m.work, LAMBDA wr : wr.cellId = m.work[rectToConsider].cellId)
  IN IF cur = 0 \/ m.work[cur].merged
       THEN [m EXCEPT !.pos = m.pos + 1]
     ELSE LET neighbours == neighboursOf(m.work, cur)
              best == chooseGroup(m.work, cells, cur, neighbours)
          IN IF Len(neighbours) > 0
               THEN [m EXCEPT !.work =
                                [k \in 1..Len(m.work) |->
                                   IF k = cur
                                     THEN [m.work[k] EXCEPT !.merged = TRUE, !.groupId = best]
                                   ELSE IF k \in Range(neighbours)
                                     THEN [m.work[k] EXCEPT !.groupId = best]
                                   ELSE m.work[k]],
                              !.keep = TRUE,
                              !.pos = m.pos + 1]
               ELSE [m EXCEPT !.remaining = Append(m.remaining, rectToConsider),
                              !.pos = m.pos + 1]

\* considerRect without keepProcessing = true
considerRectNoKeep(m, cells) ==
  LET rectToConsider == m.list[m.pos]
      cur == FindIndex(m.work, LAMBDA wr : wr.cellId = m.work[rectToConsider].cellId)
  IN IF cur = 0 \/ m.work[cur].merged
       THEN [m EXCEPT !.pos = m.pos + 1]
     ELSE LET neighbours == neighboursOf(m.work, cur)
          IN IF Len(neighbours) > 0
               THEN [m EXCEPT !.work[cur].merged = TRUE,
                              !.work[cur].groupId = chooseGroup(m.work, cells, cur, neighbours),
                              !.pos = m.pos + 1]
               ELSE [m EXCEPT !.remaining = Append(m.remaining, rectToConsider),
                              !.pos = m.pos + 1]

\* one iteration of: for (const rectToConsider of unmergedRectsProcessingList)
considerRect(m, cells) ==
  LET rectToConsider == m.list[m.pos]
      cur == FindIndex(m.work, LAMBDA wr : wr.cellId = m.work[rectToConsider].cellId)
  IN IF cur = 0 \/ m.work[cur].merged
       THEN [m EXCEPT !.pos = m.pos + 1]
     ELSE LET neighbours == neighboursOf(m.work, cur)
          IN IF Len(neighbours) > 0
               THEN [m EXCEPT !.work[cur].merged = TRUE,
                              !.work[cur].groupId = chooseGroup(m.work, cells, cur, neighbours),
                              !.keep = TRUE,
                              !.pos = m.pos + 1]
               ELSE [m EXCEPT !.remaining = Append(m.remaining, rectToConsider),
                              !.pos = m.pos + 1]

\* endPass without the test of the while condition: the loop runs one pass
endPassStop(m) ==
  [m EXCEPT !.list = sortByPriority(m.work, m.remaining), !.running = FALSE]

\* the end of a pass: re-sort what remains and test the while condition
endPass(m) ==
  whileTest([m EXCEPT !.list = sortByPriority(m.work, m.remaining)])

mergeStep(m, cells) ==
  IF m.pos <= Len(m.list) THEN considerRect(m, cells) ELSE endPass(m)

RECURSIVE growthLoop(_, _)
growthLoop(m, cells) == IF m.running THEN growthLoop(mergeStep(m, cells), cells) ELSE m

plainRect(w) == [cellId |-> w.cellId, x |-> w.x, y |-> w.y, width |-> w.width,
                 height |-> w.height,
                 minBoundingSegmentDistance |-> w.minBoundingSegmentDistance]

buildMergedRectGroups(work, conts, cells) ==
  [k \in 1..Len(conts) |->
     LET groupRects == Filter(work, LAMBDA r : r.merged /\ r.groupId = k - 1)
         others == Filter(groupRects, LAMBDA r : r.cellId # conts[k].cellId)
     IN <<conts[k], cells[k]>> \o [i \in 1..Len(others) |-> plainRect(others[i])]]

collectGroupedRects(work) == Filter(work, LAMBDA r : r.groupId # Null)

mergeGridRects(valid, grid, conts, cells) ==
  LET m == growthLoop(startMerge(valid, grid, conts), cells)
  IN [mergedRectGroups |-> buildMergedRectGroups(m.work, conts, cells),
      groupedRects |-> collectGroupedRects(m.work)]

\* ------------------------------------------------------------------------
\* lib/buildOutline.ts
\* ------------------------------------------------------------------------
\* parseFloat(v.toFixed(4)): v rounded to a whole number of 1/10000 input
\* units; a model unit is 10000 / SCALE of them
toFixed4(v) == v * (10000 \div SCALE)

getSegmentKey(p1, p2) ==
  LET p1x == toFixed4(p1.x)
      p1y == toFixed4(p1.y)
      p2x == toFixed4(p2.x)
      p2y == toFixed4(p2.y)
  IN IF p1x < p2x \/ (p1x = p2x /\ p1y < p2y)
       THEN <<p1x, p1y, p2x, p2y>>
       ELSE <<p2x, p2y, p1x, p1y>>

\* segMap.set(key, value): a Map keeps the position of the first insertion
mapSet(segMap, key, value) ==
  LET at == FindIndex(segMap, LAMBDA e : e.key = key)
  IN IF at # 0 THEN [segMap EXCEPT ![at].value = value]
     ELSE Append(segMap, [key |-> key, value |-> value])

\* pairOutline without the test that the shared portion has a length
pairOutlineAnyTouch(segMap, a, b) ==
  IF a.groupId = b.groupId THEN segMap
  ELSE
    LET aRight == a.x + a.width
        bRight == b.x + b.width
        x == IF WithinTol(aRight - b.x) THEN aRight ELSE bRight
        y0 == Max2(a.y, b.y)
        y1 == Min2(a.y + a.height, b.y + b.height)
        afterVertical ==
          IF (WithinTol(aRight - b.x) \/ WithinTol(bRight - a.x)) /\ y1 >= y0
            THEN mapSet(segMap, getSegmentKey(Pt(x, y0), Pt(x, y1)),
                        [start |-> Pt(x, y0), end |-> Pt(x, y1)])
            ELSE segMap
        aBot == a.y + a.height
        bBot == b.y + b.height
        y == IF WithinTol(aBot - b.y) THEN aBot ELSE bBot
        x0 == Max2(a.x, b.x)
        x1 == Min2(a.x + a.width, b.x + b.width)
    IN IF (WithinTol(aBot - b.y) \/ WithinTol(bBot - a.y)) /\ x1 >= x0
         THEN mapSet(afterVertical, getSegmentKey(Pt(x0, y), Pt(x1, y)),
                     [start |-> Pt(x0, y), end |-> Pt(x1, y)])
         ELSE afterVertical

\* the shared edge portions of the pair (a, b), set into segMap
pairOutline(segMap, a, b) ==
  IF a.groupId = b.groupId THEN segMap
  ELSE
    LET aRight == a.x + a.width
        bRight == b.x + b.width
        x == IF WithinTol(aRight - b.x) THEN aRight ELSE bRight
        y0 == Max2(a.y, b.y)
        y1 == Min2(a.y + a.height, b.y + b.height)
        afterVertical ==
          IF (WithinTol(aRight - b.x) \/ WithinTol(bRight - a.x)) /\ ExceedsTol(y1 - y0)
            THEN mapSet(segMap, getSegmentKey(Pt(x, y0), Pt(x, y1)),
                        [start |-> Pt(x, y0), end |-> Pt(x, y1)])
            ELSE segMap
        aBot == a.y + a.height
        bBot == b.y + b.height
        y == IF WithinTol(aBot - b.y) THEN aBot ELSE bBot
        x0 == Max2(a.x, b.x)
        x1 == Min2(a.x + a.width, b.x + b.width)
    IN IF (WithinTol(aBot - b.y) \/ WithinTol(bBot - a.y)) /\ ExceedsTol(x1 - x0)
         THEN mapSet(afterVertical, getSegmentKey(Pt(x0, y), Pt(x1, y)),
                     [start |-> Pt(x0, y), end |-> Pt(x1, y)])
         ELSE afterVertical

RECURSIVE outlineLoop(_, _, _, _)
outlineLoop(rects, i, j, segMap) ==
  IF i > Len(rects) THEN segMap
  ELSE IF j > Len(rects) THEN outlineLoop(rects, i + 1, i + 2, segMap)
  ELSE outlineLoop(rects, i, j + 1, pairOutline(segMap, rects[i], rects[j]))

buildOutline(rects, offsetX, offsetY) ==
  LET segMap == outlineLoop(rects, 1, 2, <<>>)
  IN [k \in 1..Len(segMap) |-> offsetLine(segMap[k].value, offsetX, offsetY)]

\* ------------------------------------------------------------------------
\* The pipeline (src/unnamed/part_005) and the entry point (src/unnamed/part_007)
\* ------------------------------------------------------------------------
\* lines 16-40: ids, bounds, offsets, default container, translated cells
prepare(inputCells) ==
  LET b == computeBoundsFromCellContents(
             [k \in 1..Len(inputCells) |->
                [minX |-> inputCells[k].x, minY |-> inputCells[k].y,
                 maxX |-> inputCells[k].x + inputCells[k].width,
                 maxY |-> inputCells[k].y + inputCells[k].height]])
  IN [offsetX |-> b.minX, offsetY |-> b.minY,
      containerWidth |-> Sub(b.maxX, b.minX),
      containerHeight |-> Sub(b.maxY, b.minY),
      cellContents |->
        [k \in 1..Len(inputCells) |->
           [cellId |-> <<"cell", k - 1>>,
            x |-> inputCells[k].x - b.minX, y |-> inputCells[k].y - b.minY,
            width |-> inputCells[k].width, height |-> inputCells[k].height]]]

calculateCellBoundariesDebug(inputCells) ==
  LET p == prepare(inputCells)
      ms == computeMidlines(p.cellContents, p.containerWidth, p.containerHeight)
      ints == computeIntersections(ms)
      segs == computeSegments(ms, ints, p.cellContents)
      g == buildGrid(segs, p.cellContents, p.containerWidth, p.containerHeight)
      mg == mergeGridRects(g.validSegments, g.gridRects, g.cellContainingRects, p.cellContents)
  IN buildOutline(mg.groupedRects, p.offsetX, p.offsetY)

\* .sort((a, b) => start.x difference, else start.y difference)
sortLines(lines) ==
  StableSort(lines, LAMBDA a, b :
    IF a.start.x # b.start.x THEN a.start.x < b.start.x ELSE a.start.y < b.start.y)

calculateCellBoundaries(rects) ==
  sortLines(calculateCellBoundariesDebug([k \in 1..Len(rects) |-> toCellContent(rects[k])]))

\* ------------------------------------------------------------------------
\* The segment merger (src/unnamed/part_008 lines 94-191). A segment is an
\* object that refers to two point objects; the model keeps the field values
\* of the caller's array beside the values the function computes, and a
\* normalized segment carries in endRef the index of the caller's segment
\* whose end point object it shares (Null when its points are new objects).
\* ------------------------------------------------------------------------
\* lines 94-111: a swapped segment gets two new points, any other segment
\* keeps the point objects of its argument
normalizeSegment(segment) ==
  LET start == segment.start
      end == segment.end
  IN IF start.y = end.y /\ start.x > end.x
       THEN [start |-> Pt(end.x, start.y), end |-> Pt(start.x, end.y), shared |-> FALSE]
     ELSE IF start.x = end.x /\ start.y > end.y
       THEN [start |-> Pt(start.x, end.y), end |-> Pt(end.x, start.y), shared |-> FALSE]
     ELSE [start |-> start, end |-> end, shared |-> TRUE]

\* the coordinate along a horizontal (x) or vertical (y) segment, and across it
alongOf(p, horizontal) == IF horizontal THEN p.x ELSE p.y
acrossOf(p, horizontal) == IF horizontal THEN p.y ELSE p.x

\* the keys of a Map in the order of their first insertion
RECURSIVE mapKeys(_, _, _)
mapKeys(segs, horizontal, k) ==
  IF k = 0 THEN <<>>
  ELSE LET before == mapKeys(segs, horizontal, k - 1)
           key == acrossOf(segs[k].start, horizontal)
       IN IF \E j \in 1..Len(before) : before[j] = key THEN before
          ELSE Append(before, key)

\* currentMerged.end.x = v (line 154), currentMerged.end.y = v (line 181):
\* the write goes to the point object, which is the caller's when shared
setEnd(seg, horizontal, v) ==
  IF horizontal THEN [seg EXCEPT !.end.x = v] ELSE [seg EXCEPT !.end.y = v]

\* lines 149-160 and 176-187: the loop over one sorted group; acc holds the
\* merged segments pushed so far and the caller's array
RECURSIVE mergeRun(_, _, _, _, _)
mergeRun(segs, i, currentMerged, acc, horizontal) ==
  IF i > Len(segs)
    THEN [acc EXCEPT !.mergedSegments = Append(acc.mergedSegments, currentMerged)]
  ELSE
    LET nextSeg == segs[i]
    IN IF alongOf(nextSeg.start, horizontal) <= alongOf(currentMerged.end, horizontal)
         THEN LET v == Max2(alongOf(currentMerged.end, horizontal),
                            alongOf(nextSeg.end, horizontal))
                  written ==
                    IF currentMerged.endRef = Null THEN acc.segments
                    ELSE [acc.segments EXCEPT
                            ![currentMerged.endRef] = setEnd(@, horizontal, v)]
              IN mergeRun(segs, i + 1, setEnd(currentMerged, horizontal, v),
                          [acc EXCEPT !.segments = written], horizontal)
         ELSE mergeRun(segs, i + 1, nextSeg,
                       [acc EXCEPT !.mergedSegments = Append(acc.mergedSegments, currentMerged)],
                       horizontal)

\* lines 145-161 and 172-188: the groups in the order of the Map
RECURSIVE mergeGroups(_, _, _, _, _)
mergeGroups(group, keys, k, acc, horizontal) ==
  IF k > Len(keys) THEN acc
  ELSE
    LET segs == StableSort(
                  Filter(group, LAMBDA s : acrossOf(s.start, horizontal) = keys[k]),
                  LAMBDA a, b : alongOf(a.start, horizontal) < alongOf(b.start, horizontal))
    IN mergeGroups(group, keys, k + 1,
                   mergeRun(segs, 2, segs[1], acc, horizontal), horizontal)

\* lines 113-191; the value is the returned list and, in segments, the field
\* values of the caller's array when the function returns
mergeAlignedSegments(segments) ==
  IF Len(segments) = 0 THEN [mergedSegments |-> <<>>, segments |-> segments]
  ELSE
    LET normalizedSegments ==
          [k \in 1..Len(segments) |->
             LET n == normalizeSegment(segments[k])
             IN [start |-> n.start, end |-> n.end,
                 endRef |-> IF n.shared THEN k ELSE Null]]
        horizontalSegments ==
          Filter(normalizedSegments, LAMBDA s : s.start.y = s.end.y)
        verticalSegments ==
          Filter(normalizedSegments, LAMBDA s : s.start.y # s.end.y /\ s.start.x = s.end.x)
        afterHorizontal ==
          mergeGroups(horizontalSegments,
                      mapKeys(horizontalSegments, TRUE, Len(horizontalSegments)), 1,
                      [mergedSegments |-> <<>>, segments |-> segments], TRUE)
        afterVertical ==
          mergeGroups(verticalSegments,
                      mapKeys(verticalSegments, FALSE, Len(verticalSegments)), 1,
                      afterHorizontal, FALSE)
    IN [mergedSegments |->
          [k \in 1..Len(afterVertical.mergedSegments) |->
             [start |-> afterVertical.mergedSegments[k].start,
              end |-> afterVertical.mergedSegments[k].end]],
        segments |-> afterVertical.segments]

\* ------------------------------------------------------------------------
\* The program as a state machine: calls of the entry point, stage by stage.
\* The variables after thrown are the locals of the running call.
\* ------------------------------------------------------------------------
VARIABLES
  rectangles,                  \* the caller's rectangle list, passed by reference
  passed,                      \* the value of that list when the call was made
  seen,                        \* the caller's log of the calls that have returned
  pc,                          \* the position of the running call
  thrown,                      \* an error has been raised to the caller
  cellContents, offsetX, offsetY, containerWidth, containerHeight,
  midlines, intersections, allSegments,
  validSegments, cellContainingRects, gridRects,
  workRects, unmergedRectsProcessingList, forPos, keepProcessing, remainingAfterPass,
  passes,                      \* history: the passes of the growth loop begun in this
                               \* call, counted up to MaxPasses
  mergedRectGroups, groupedRects,
  outlineLines,
  result,                      \* the returned segment list, the caller's array
  mergedSegments               \* what mergeAlignedSegments returned to the caller

prepVars == <<cellContents, offsetX, offsetY, containerWidth, containerHeight>>
lineVars == <<midlines, intersections, allSegments>>
gridVars == <<validSegments, cellContainingRects, gridRects>>
loopVars == <<workRects, unmergedRectsProcessingList, forPos, keepProcessing, remainingAfterPass,
              passes>>
groupVars == <<mergedRectGroups, groupedRects>>
callerVars == <<rectangles, passed, seen>>
vars == <<callerVars, pc, thrown, prepVars, lineVars, gridVars, loopVars, groupVars,
          outlineLines, result, mergedSegments>>

RectsOn(xs, ys) == [minX : xs, minY : ys, maxX : xs, maxY : ys]

\* the contract of the entry point: minX < maxX and minY < maxY
IsValidRect(r) == r.minX < r.maxX /\ r.minY < r.maxY

inputOverlap(r, q) ==
  r.minX < q.maxX /\ r.maxX > q.minX /\ r.minY < q.maxY /\ r.maxY > q.minY

PairwiseDisjoint(l) ==
  \A i \in 1..Len(l) : \A j \in 1..Len(l) : i # j => ~inputOverlap(l[i], l[j])

ListsUpTo(S, n) == UNION {[1..k -> S] : k \in 0..n}

\* lists of valid, pairwise non-overlapping rectangles
ValidRects == {r \in RectsOn(0..MaxX, 0..MaxY) : IsValidRect(r)}
ValidInputs == {l \in ListsUpTo(ValidRects, MaxRects) : PairwiseDisjoint(l)}

\* two valid, non-overlapping rectangles on a wider lattice
PairRects == {r \in RectsOn(0..PairCoord, 0..PairCoord) : IsValidRect(r)}
PairInputs == {l \in [1..2 -> PairRects] : PairwiseDisjoint(l)}

\* no rectangle or one valid rectangle
FewInputs == ListsUpTo(ValidRects, 1)

\* at most two rectangles of any shape, valid or not, overlapping or not
AnyRects == RectsOn(0..(MaxX - 1), 0..(MaxY - 1))
AnyInputs == ListsUpTo(AnyRects, 2)

\* what a caller that calls repeatedly passes: at most two valid,
\* non-overlapping rectangles of height one in a row
RowRects == {r \in RectsOn(0..MaxX, 0..1) : IsValidRect(r)}
CallInputs == {l \in ListsUpTo(RowRects, 2) : PairwiseDisjoint(l)}

Locals0 ==
  /\ thrown = FALSE
  /\ cellContents = <<>> /\ offsetX = 0 /\ offsetY = 0
  /\ containerWidth = 0 /\ containerHeight = 0
  /\ midlines = <<>> /\ intersections = <<>> /\ allSegments = <<>>
  /\ validSegments = <<>> /\ cellContainingRects = <<>> /\ gridRects = <<>>
  /\ workRects = <<>> /\ unmergedRectsProcessingList = <<>> /\ forPos = 1
  /\ keepProcessing = TRUE /\ remainingAfterPass = <<>>
  /\ passes = 0
  /\ mergedRectGroups = <<>> /\ groupedRects = <<>>
  /\ outlineLines = <<>>
  /\ result = <<>>
  /\ mergedSegments = <<>>

InitWith(inputs) ==
  /\ rectangles \in inputs
  /\ passed = rectangles
  /\ seen = <<>>
  /\ pc = "idle"
  /\ Locals0

Init == InitWith(ValidInputs)
InitPair == InitWith(PairInputs)
InitFew == InitWith(FewInputs)
InitAny == InitWith(AnyInputs)
InitCalls == InitWith(CallInputs)

\* part_007 lines 8-13: the argument conversion; part_005 lines 16-40
Enter ==
  /\ pc = "idle"
  /\ LET p == prepare([k \in 1..Len(rectangles) |-> toCellContent(rectangles[k])])
     IN /\ cellContents' = p.cellContents
        /\ offsetX' = p.offsetX
        /\ offsetY' = p.offsetY
        /\ containerWidth' = p.containerWidth
        /\ containerHeight' = p.containerHeight
  /\ pc' = "midlines"
  /\ UNCHANGED <<callerVars, thrown, mergedSegments, lineVars, gridVars,
                 loopVars, groupVars, outlineLines, result>>

ComputeMidlines ==
  /\ pc = "midlines"
  /\ midlines' = computeMidlines(cellContents, containerWidth, containerHeight)
  /\ pc' = "intersections"
  /\ UNCHANGED <<callerVars, thrown, mergedSegments, prepVars, intersections, allSegments,
                 gridVars, loopVars, groupVars, outlineLines, result>>

ComputeIntersections ==
  /\ pc = "intersections"
  /\ intersections' = computeIntersections(midlines)
  /\ pc' = "segments"
  /\ UNCHANGED <<callerVars, thrown, mergedSegments, prepVars, midlines, allSegments,
                 gridVars, loopVars, groupVars, outlineLines, result>>

ComputeSegments ==
  /\ pc = "segments"
  /\ allSegments' = computeSegments(midlines, intersections, cellContents)
  /\ pc' = "grid"
  /\ UNCHANGED <<callerVars, thrown, mergedSegments, prepVars, midlines, intersections,
                 gridVars, loopVars, groupVars, outlineLines, result>>

BuildGrid ==
  /\ pc = "grid"
  /\ LET g == buildGrid(allSegments, cellContents, containerWidth, containerHeight)
     IN /\ validSegments' = g.validSegments
        /\ cellContainingRects' = g.cellContainingRects
        /\ gridRects' = g.gridRects
  /\ pc' = "merge"
  /\ UNCHANGED <<callerVars, thrown, mergedSegments, prepVars, lineVars,
                 loopVars, groupVars, outlineLines, result>>

MergeState ==
  [work |-> workRects, list |-> unmergedRectsProcessingList, pos |-> forPos,
   keep |-> keepProcessing, remaining |-> remainingAfterPass, running |-> pc = "growing"]

SetMergeState(m) ==
  /\ workRects' = m.work
  /\ unmergedRectsProcessingList' = m.list
  /\ forPos' = m.pos
  /\ keepProcessing' = m.keep
  /\ remainingAfterPass' = m.remaining
  /\ pc' = IF m.running THEN "growing" ELSE "groups"

\* mergeGrid.ts lines 20-96: work rects, seeding, the first processing list
MergeSeed ==
  /\ pc = "merge"
  /\ LET m == startMerge(validSegments, gridRects, cellContainingRects)
     IN /\ SetMergeState(m)
        /\ passes' = IF m.running THEN 1 ELSE 0
  /\ UNCHANGED <<callerVars, thrown, mergedSegments, prepVars, lineVars,
                 gridVars, groupVars, outlineLines, result>>

\* mergeGrid.ts lines 98-146: one rect of the for loop
MergeConsider ==
  /\ pc = "growing"
  /\ forPos <= Len(unmergedRectsProcessingList)
  /\ SetMergeState(considerRect(MergeState, cellContents))
  /\ passes' = passes
  /\ UNCHANGED <<callerVars, thrown, mergedSegments, prepVars, lineVars,
                 gridVars, groupVars, outlineLines, result>>

\* mergeGrid.ts lines 147-150 and 94-96: the end of a pass
MergeEndPass ==
  /\ pc = "growing"
  /\ forPos > Len(unmergedRectsProcessingList)
  /\ LET m == endPass(MergeState)
     IN /\ SetMergeState(m)
        /\ passes' = IF m.running /\ passes < MaxPasses THEN passes + 1 ELSE passes
  /\ UNCHANGED <<callerVars, thrown, mergedSegments, prepVars, lineVars,
                 gridVars, groupVars, outlineLines, result>>

\* mergeGrid.ts lines 152-169
MergeGroups ==
  /\ pc = "groups"
  /\ mergedRectGroups' = buildMergedRectGroups(workRects, cellContainingRects, cellContents)
  /\ groupedRects' = collectGroupedRects(workRects)
  /\ pc' = "outline"
  /\ UNCHANGED <<callerVars, thrown, mergedSegments, prepVars, lineVars,
                 gridVars, loopVars, outlineLines, result>>

\* BuildOutline with the outline lines kept outside the function
BuildOutlineShared ==
  /\ pc = "outline"
  /\ outlineLines' = outlineLines \o buildOutline(groupedRects, offsetX, offsetY)
  /\ pc' = "return"
  /\ UNCHANGED <<callerVars, thrown, mergedSegments, prepVars, lineVars,
                 gridVars, loopVars, groupVars, result>>

BuildOutline ==
  /\ pc = "outline"
  /\ outlineLines' = buildOutline(groupedRects, offsetX, offsetY)
  /\ pc' = "return"
  /\ UNCHANGED <<callerVars, thrown, mergedSegments, prepVars, lineVars,
                 gridVars, loopVars, groupVars, result>>

\* part_007 lines 15-25: copy the outline lines and sort them
Return ==
  /\ pc = "return"
  /\ result' = sortLines(outlineLines)
  /\ pc' = "done"
  /\ UNCHANGED <<callerVars, thrown, mergedSegments, prepVars, lineVars,
                 gridVars, loopVars, groupVars, outlineLines>>

Next ==
  \/ Enter
  \/ ComputeMidlines
  \/ ComputeIntersections
  \/ ComputeSegments
  \/ BuildGrid
  \/ MergeSeed
  \/ MergeConsider
  \/ MergeEndPass
  \/ MergeGroups
  \/ BuildOutline
  \/ Return

\* The caller notes the call that has returned and calls again: with any
\* list the second time, afterwards with a list it has passed before. The
\* locals of the last call are garbage the new call may not read.
CallAgain ==
  /\ pc = "done"
  /\ Len(seen) + 1 < MaxCalls
  /\ seen' = Append(seen, [rects |-> passed, result |-> result])
  /\ rectangles' \in (IF Len(seen') < 2 THEN CallInputs
                      ELSE {seen'[k].rects : k \in 1..Len(seen')})
  /\ passed' = rectangles'
  /\ pc' = "idle"
  /\ UNCHANGED <<thrown, mergedSegments, prepVars, lineVars, gridVars, loopVars, groupVars,
                 outlineLines, result>>

NextCalls ==
  \/ Next
  \/ CallAgain

\* one call on lists of valid, pairwise non-overlapping rectangles
Spec == Init /\ [][Next]_vars

\* one call on two rectangles
SpecPair == InitPair /\ [][Next]_vars

\* one call on rectangles of any shape
SpecAny == InitAny /\ [][Next]_vars

\* one call on at most one rectangle; the call is synchronous code that runs
\* to its end, so a step that can be taken is taken
SpecFew == InitFew /\ [][Next]_vars /\ WF_vars(Next)

\* calls in a row by one caller
SpecCalls == InitCalls /\ [][NextCalls]_vars

\* the stepwise pipeline returns what the entry point computes
StepwiseAgrees == pc = "done" => result = calculateCellBoundaries(rectangles)

\* ------------------------------------------------------------------------
\* Vocabulary of the properties. Rectangles are the caller's; points of the
\* result are in model units.
\* ------------------------------------------------------------------------
GapX(r, q) == r.maxX < q.minX \/ q.maxX < r.minX
GapY(r, q) == r.maxY < q.minY \/ q.maxY < r.minY

\* the width of the gap between two intervals, when there is one
GapWidth(lo1, hi1, lo2, hi2) == IF hi1 < lo2 THEN lo2 - hi1 ELSE lo1 - hi2

\* the midpoint of the gap between two intervals, in model units
GapMid(lo1, hi1, lo2, hi2) ==
  IF hi1 < lo2 THEN ((hi1 + lo2) * SCALE) \div 2 ELSE ((hi2 + lo1) * SCALE) \div 2

GapMidX(r, q) == GapMid(r.minX, r.maxX, q.minX, q.maxX)
GapMidY(r, q) == GapMid(r.minY, r.maxY, q.minY, q.maxY)

IsVertical(seg) == seg.start.x = seg.end.x
IsHorizontal(seg) == seg.start.y = seg.end.y

\* the segment joins the two points, in either direction
Joins(seg, p, q) == {seg.start, seg.end} = {p, q} /\ p # q

LowX(l) == SCALE * Min2(l[1].minX, l[2].minX)
HighX(l) == SCALE * Max2(l[1].maxX, l[2].maxX)
LowY(l) == SCALE * Min2(l[1].minY, l[2].minY)
HighY(l) == SCALE * Max2(l[1].maxY, l[2].maxY)

\* the vertical segments of segs lie on x = atX and cover lo..hi exactly
CoverVertical(segs, atX, lo, hi) ==
  /\ \A k \in 1..Len(segs) :
       /\ IsVertical(segs[k]) /\ segs[k].start.x = atX
       /\ Min2(segs[k].start.y, segs[k].end.y) >= lo
       /\ Max2(segs[k].start.y, segs[k].end.y) <= hi
  /\ \A u \in lo..(hi - 1) :
       \E k \in 1..Len(segs) :
         /\ Min2(segs[k].start.y, segs[k].end.y) <= u
         /\ u + 1 <= Max2(segs[k].start.y, segs[k].end.y)

\* the horizontal segments of segs lie on y = atY and cover lo..hi exactly
CoverHorizontal(segs, atY, lo, hi) ==
  /\ \A k \in 1..Len(segs) :
       /\ IsHorizontal(segs[k]) /\ segs[k].start.y = atY
       /\ Min2(segs[k].start.x, segs[k].end.x) >= lo
       /\ Max2(segs[k].start.x, segs[k].end.x) <= hi
  /\ \A u \in lo..(hi - 1) :
       \E k \in 1..Len(segs) :
         /\ Min2(segs[k].start.x, segs[k].end.x) <= u
         /\ u + 1 <= Max2(segs[k].start.x, segs[k].end.x)

Returned == pc = "done"

\* ------------------------------------------------------------------------
\* C1: two rectangles with a gap on exactly one axis yield exactly one
\* segment; it is perpendicular to the axis of the gap, lies at the midpoint
\* of the gap, and spans the other axis from the smallest minimum to the
\* largest maximum of the two rectangles.
C1_OneSegmentAcrossGap ==
  (Returned /\ Len(rectangles) = 2) =>
    LET r == rectangles[1]
        q == rectangles[2]
    IN /\ (GapX(r, q) /\ ~GapY(r, q)) =>
            /\ Len(result) = 1
            /\ Joins(result[1], Pt(GapMidX(r, q), LowY(rectangles)),
                                Pt(GapMidX(r, q), HighY(rectangles)))
       /\ (GapY(r, q) /\ ~GapX(r, q)) =>
            /\ Len(result) = 1
            /\ Joins(result[1], Pt(LowX(rectangles), GapMidY(r, q)),
                                Pt(HighX(rectangles), GapMidY(r, q)))

\* a call has returned for two rectangles of different heights, the second to
\* the left of the first across a gap, their y ranges sharing more than a point
C1_Witness ==
  /\ Returned /\ Len(rectangles) = 2 /\ Len(result) = 1
  /\ rectangles[2].maxX < rectangles[1].minX
  /\ rectangles[1].minY < rectangles[2].minY
  /\ rectangles[2].minY < rectangles[1].maxY
  /\ rectangles[1].maxY < rectangles[2].maxY

\* ------------------------------------------------------------------------
\* C2 as stated: two rectangles with a gap on both axes yield exactly one
\* segment, the vertical one at the midpoint of the x gap, spanning from the
\* smallest minY to the largest maxY.
C2_OneVerticalSegment ==
  (Returned /\ Len(rectangles) = 2) =>
    LET r == rectangles[1]
        q == rectangles[2]
    IN (GapX(r, q) /\ GapY(r, q)) =>
         /\ Len(result) = 1
         /\ Joins(result[1], Pt(GapMidX(r, q), LowY(rectangles)),
                             Pt(GapMidX(r, q), HighY(rectangles)))

\* C2 amended: two rectangles with a gap on both axes yield segments on one
\* line through the wider gap. When the x gap is strictly wider than the y
\* gap they all lie on the vertical line at the midpoint of the x gap and
\* together cover it exactly from the smallest minY to the largest maxY; when
\* the y gap is strictly wider they all lie on the horizontal line at the
\* midpoint of the y gap and cover it from the smallest minX to the largest
\* maxX.
C2_LineThroughWiderGap ==
  (Returned /\ Len(rectangles) = 2) =>
    LET r == rectangles[1]
        q == rectangles[2]
        gapX == GapWidth(r.minX, r.maxX, q.minX, q.maxX)
        gapY == GapWidth(r.minY, r.maxY, q.minY, q.maxY)
    IN (GapX(r, q) /\ GapY(r, q)) =>
         /\ gapX # gapY => Len(result) > 0
         /\ gapX > gapY =>
              CoverVertical(result, GapMidX(r, q), LowY(rectangles), HighY(rectangles))
         /\ gapY > gapX =>
              CoverHorizontal(result, GapMidY(r, q), LowX(rectangles), HighX(rectangles))

\* a call has returned for two rectangles with a gap on both axes, the x gap
\* the wider one
C2_Witness ==
  /\ Returned /\ Len(rectangles) = 2 /\ Len(result) > 0
  /\ GapX(rectangles[1], rectangles[2]) /\ GapY(rectangles[1], rectangles[2])
  /\ GapWidth(rectangles[1].minX, rectangles[1].maxX,
              rectangles[2].minX, rectangles[2].maxX)
       > GapWidth(rectangles[1].minY, rectangles[1].maxY,
                  rectangles[2].minY, rectangles[2].maxY)

\* ------------------------------------------------------------------------
\* C3 as stated: the set of returned segments is the same for every
\* permutation of the rectangle list; for two rectangles, for the list and
\* its reverse.
C3_OrderIndependent ==
  (Returned /\ Len(rectangles) = 2) =>
    Range(calculateCellBoundaries(<<rectangles[2], rectangles[1]>>)) = Range(result)

C5_FewRectanglesReturnEmpty ==
  (pc = "idle" /\ Len(rectangles) <= 1) ~> (Returned /\ ~thrown /\ result = <<>>)

\* a call with one rectangle has returned
C5_Witness == Returned /\ Len(rectangles) = 1 /\ ~thrown /\ result = <<>>

\* ------------------------------------------------------------------------
\* C6 as stated: when some rectangle has minX >= maxX or minY >= maxY the
\* call raises an error before it computes midlines, grid or merge, and it
\* returns no segments.
HasInvalidRect == \E k \in 1..Len(rectangles) : ~IsValidRect(rectangles[k])

C6_InvalidRejected ==
  HasInvalidRect => (pc \in {"idle", "midlines"} \/ thrown)

\* ------------------------------------------------------------------------
\* C7: every returned segment is horizontal or vertical and has a positive
\* length; the x of a vertical one is the midpoint of the x gap of two input
\* rectangles with a strict gap on x, the y of a horizontal one the midpoint
\* of the y gap of two rectangles with a strict gap on y; none lies on an
\* edge of the container.
OnGapMidline(seg, l) ==
  \E i \in 1..Len(l) : \E j \in 1..Len(l) :
    \/ /\ IsVertical(seg) /\ GapX(l[i], l[j])
       /\ seg.start.x = GapMidX(l[i], l[j])
    \/ /\ IsHorizontal(seg) /\ GapY(l[i], l[j])
       /\ seg.start.y = GapMidY(l[i], l[j])

OnContainerEdge(seg, l) ==
  LET b == computeBoundsFromCellContents(l)
  IN \/ IsVertical(seg) /\ seg.start.x \in {SCALE * b.minX, SCALE * b.maxX}
     \/ IsHorizontal(seg) /\ seg.start.y \in {SCALE * b.minY, SCALE * b.maxY}

C7_SegmentsOnGapMidlines ==
  Returned =>
    \A k \in 1..Len(result) :
      /\ IsVertical(result[k]) \/ IsHorizontal(result[k])
      /\ result[k].start # result[k].end
      /\ OnGapMidline(result[k], rectangles)
      /\ ~OnContainerEdge(result[k], rectangles)

\* a call has returned a vertical and a horizontal segment
C7_Witness ==
  /\ Returned
  /\ \E k \in 1..Len(result) : IsVertical(result[k]) /\ ~IsHorizontal(result[k])
  /\ \E k \in 1..Len(result) : IsHorizontal(result[k]) /\ ~IsVertical(result[k])

\* ------------------------------------------------------------------------
\* C8 as stated: the returned list is in ascending lexicographic order of
\* (start.x, start.y, end.x, end.y), also where two segments start at the
\* same point.
LexLeq(a, b) ==
  \/ a.start.x < b.start.x
  \/ a.start.x = b.start.x /\ a.start.y < b.start.y
  \/ a.start = b.start /\ a.end.x < b.end.x
  \/ a.start = b.start /\ a.end.x = b.end.x /\ a.end.y <= b.end.y

C8_SortedByStartThenEnd ==
  Returned => \A k \in 1..(Len(result) - 1) : LexLeq(result[k], result[k + 1])

\* ------------------------------------------------------------------------
\* C9 as stated, for the returned list: it holds one segment for each
\* straight stretch of boundary: no two of its segments lie on one line and
\* touch or overlap.
Abut(a, b) ==
  \/ /\ IsVertical(a) /\ IsVertical(b) /\ a.start.x = b.start.x
     /\ Max2(Min2(a.start.y, a.end.y), Min2(b.start.y, b.end.y))
          <= Min2(Max2(a.start.y, a.end.y), Max2(b.start.y, b.end.y))
  \/ /\ IsHorizontal(a) /\ IsHorizontal(b) /\ a.start.y = b.start.y
     /\ Max2(Min2(a.start.x, a.end.x), Min2(b.start.x, b.end.x))
          <= Min2(Max2(a.start.x, a.end.x), Max2(b.start.x, b.end.x))

C9_OneSegmentPerStretch ==
  Returned =>
    \A i \in 1..Len(result) : \A j \in 1..Len(result) :
      i # j => ~Abut(result[i], result[j])

\* ------------------------------------------------------------------------
\* C10 as stated: for N pairwise non-overlapping rectangles, when every grid
\* rect has been merged, there are N groups, their rects cover the container,
\* no rect of one group overlaps a rect of another with positive area, and
\* the containing rects of two different rectangles neither overlap nor
\* coincide.
PositiveOverlap(a, b) ==
  /\ a.x < b.x + b.width /\ b.x < a.x + a.width
  /\ a.y < b.y + b.height /\ b.y < a.y + a.height

\* the square of half an input unit whose corner is (u, v) half units
InRect(u, v, r) ==
  /\ r.x * 2 <= u * SCALE /\ (u + 1) * SCALE <= (r.x + r.width) * 2
  /\ r.y * 2 <= v * SCALE /\ (v + 1) * SCALE <= (r.y + r.height) * 2

GroupsCoverContainer ==
  \A u \in 0..((containerWidth * 2) \div SCALE - 1) :
    \A v \in 0..((containerHeight * 2) \div SCALE - 1) :
      \E g \in 1..Len(mergedRectGroups) : \E k \in 1..Len(mergedRectGroups[g]) :
        InRect(u, v, mergedRectGroups[g][k])

C10_GroupsPartitionContainer ==
  (pc = "outline" /\ Len(rectangles) > 0
     /\ \A k \in 1..Len(workRects) : workRects[k].merged) =>
    /\ Len(mergedRectGroups) = Len(rectangles)
    /\ GroupsCoverContainer
    /\ \A g \in 1..Len(mergedRectGroups) : \A h \in 1..Len(mergedRectGroups) :
         g # h =>
           \A i \in 1..Len(mergedRectGroups[g]) : \A j \in 1..Len(mergedRectGroups[h]) :
             ~PositiveOverlap(mergedRectGroups[g][i], mergedRectGroups[h][j])
    /\ \A g \in 1..Len(cellContainingRects) : \A h \in 1..Len(cellContainingRects) :
         g # h => ~PositiveOverlap(cellContainingRects[g], cellContainingRects[h])

\* ------------------------------------------------------------------------
\* Three rectangles in a row from left to right, an x gap between every two
\* of them, given in any order.
StairRects == {r \in RectsOn(0..StairX, 0..MaxY) : IsValidRect(r)}

\* the lists of three rectangles of S with an x gap between every two
StairLists(S) ==
  UNION {{<<p[1], p[2], c>> : c \in {c \in S : GapX(p[1], c) /\ GapX(p[2], c)}} :
           p \in {p \in S \X S : GapX(p[1], p[2])}}

InitStair == InitWith(StairLists(StairRects))

\* one call on three rectangles in a row
SpecStair == InitStair /\ [][Next]_vars

\* the y ranges of the two rectangles share more than a point
OverlapY(r, q) == r.minY < q.maxY /\ q.minY < r.maxY
OverlapX(r, q) == r.minX < q.maxX /\ q.minX < r.maxX

LowY3(l) == SCALE * Min2(l[1].minY, Min2(l[2].minY, l[3].minY))
HighY3(l) == SCALE * Max2(l[1].maxY, Max2(l[2].maxY, l[3].maxY))
LowX3(l) == SCALE * Min2(l[1].minX, Min2(l[2].minX, l[3].minX))
HighX3(l) == SCALE * Max2(l[1].maxX, Max2(l[2].maxX, l[3].maxX))

\* C11 as stated: three rectangles from left to right with an x gap between
\* the left and the middle one and between the middle and the right one, each
\* of these pairs overlapping in y, yield exactly two segments: the vertical
\* ones at the midpoints of the two gaps, each from the smallest minY to the
\* largest maxY of the three.
C11_StaircaseTwoVerticals ==
  (Returned /\ Len(rectangles) = 3) =>
    \A m \in 1..3 : \A a \in 1..3 : \A b \in 1..3 :
      (/\ rectangles[a].maxX < rectangles[m].minX
       /\ rectangles[m].maxX < rectangles[b].minX
       /\ OverlapY(rectangles[a], rectangles[m])
       /\ OverlapY(rectangles[m], rectangles[b])) =>
        /\ Len(result) = 2
        /\ \E i \in 1..2 :
             Joins(result[i], Pt(GapMidX(rectangles[a], rectangles[m]), LowY3(rectangles)),
                              Pt(GapMidX(rectangles[a], rectangles[m]), HighY3(rectangles)))
        /\ \E i \in 1..2 :
             Joins(result[i], Pt(GapMidX(rectangles[m], rectangles[b]), LowY3(rectangles)),
                              Pt(GapMidX(rectangles[m], rectangles[b]), HighY3(rectangles)))

\* ------------------------------------------------------------------------
\* C12 as stated: two rectangles of equal vertical extent side by side with an
\* x gap and a third one separated from both by a y gap and overlapping both
\* in x yield exactly two segments forming a T: the horizontal one at the
\* midpoint of the y gap across the full x extent, and the vertical one at the
\* midpoint of the x gap from the outer edge of the pair to the horizontal
\* one and no further.
TShape(l, a, b, c) ==
  /\ {a, b, c} = 1..3
  /\ l[a].minY = l[b].minY /\ l[a].maxY = l[b].maxY
  /\ l[a].maxX < l[b].minX
  /\ GapY(l[c], l[a])
  /\ OverlapX(l[c], l[a]) /\ OverlapX(l[c], l[b])

C12_TeeOfTwoSegments ==
  (Returned /\ Len(rectangles) = 3) =>
    \A a \in 1..3 : \A b \in 1..3 : \A c \in 1..3 :
      TShape(rectangles, a, b, c) =>
        LET midY == GapMidY(rectangles[c], rectangles[a])
            midX == GapMidX(rectangles[a], rectangles[b])
            outerY == IF rectangles[a].maxY < rectangles[c].minY
                      THEN LowY3(rectangles) ELSE HighY3(rectangles)
        IN /\ Len(result) = 2
           /\ \E i \in 1..2 :
                Joins(result[i], Pt(LowX3(rectangles), midY), Pt(HighX3(rectangles), midY))
           /\ \E i \in 1..2 :
                Joins(result[i], Pt(midX, outerY), Pt(midX, midY))

\* ------------------------------------------------------------------------
\* C13 as stated: when rectangle c has a neighbour b to its left across an x
\* gap with the same vertical extent and a neighbour a below it across a y
\* gap with the same horizontal extent, exactly two segments are returned:
\* the vertical one at the midpoint of the gap of b and c over the full
\* vertical extent of the three, and the horizontal one at the midpoint of
\* the gap of c and a, from that vertical to the right edge of the bounding
\* box. (The corner below b belongs to the region of b.)
CornerShape(l, a, b, c) ==
  /\ {a, b, c} = 1..3
  /\ l[b].maxX < l[c].minX
  /\ l[b].minY = l[c].minY /\ l[b].maxY = l[c].maxY
  /\ l[c].maxY < l[a].minY
  /\ l[a].minX = l[c].minX /\ l[a].maxX = l[c].maxX

C13_CornerOfTwoSegments ==
  (Returned /\ Len(rectangles) = 3) =>
    \A a \in 1..3 : \A b \in 1..3 : \A c \in 1..3 :
      CornerShape(rectangles, a, b, c) =>
        LET midX == GapMidX(rectangles[b], rectangles[c])
            midY == GapMidY(rectangles[c], rectangles[a])
        IN /\ Len(result) = 2
           /\ \E i \in 1..2 :
                Joins(result[i], Pt(midX, LowY3(rectangles)), Pt(midX, HighY3(rectangles)))
           /\ \E i \in 1..2 :
                Joins(result[i], Pt(midX, midY), Pt(HighX3(rectangles), midY))

\* ------------------------------------------------------------------------
\* Three unit squares, pairwise non-overlapping (they may touch), given in
\* any order.
TrioRects ==
  {r \in RectsOn(0..TrioX, 0..TrioY) :
     r.maxX = r.minX + 1 /\ r.maxY = r.minY + 1}

TrioInputs == {l \in [1..3 -> TrioRects] : PairwiseDisjoint(l)}

InitTrio == InitWith(TrioInputs)

\* one call on three unit squares
SpecTrio == InitTrio /\ [][Next]_vars

\* Three unit squares on a square lattice, one of them at the origin, in any
\* order; the lattice is wide enough for grid rects that touch no containing
\* rect.
GrowRects ==
  {r \in RectsOn(0..GrowCoord, 0..GrowCoord) :
     r.maxX = r.minX + 1 /\ r.maxY = r.minY + 1}

GrowInputs ==
  {l \in [1..3 -> GrowRects] :
     PairwiseDisjoint(l) /\ \E k \in 1..3 : l[k].minX = 0 /\ l[k].minY = 0}

InitGrow == InitWith(GrowInputs)

\* one call on three unit squares of the square lattice
SpecGrow == InitGrow /\ [][Next]_vars

\* ------------------------------------------------------------------------
\* C14 as stated: for pairwise non-overlapping rectangles, when no grid rect stays
\* unmerged, every end point of every returned segment lies on the border of
\* the bounding box or on another returned segment.
AllMerged == \A k \in 1..Len(workRects) : workRects[k].merged

OnBorder(p, l) ==
  LET b == computeBoundsFromCellContents(l)
  IN \/ p.x \in {SCALE * b.minX, SCALE * b.maxX}
     \/ p.y \in {SCALE * b.minY, SCALE * b.maxY}

OnSegment(p, seg) ==
  /\ Min2(seg.start.x, seg.end.x) <= p.x /\ p.x <= Max2(seg.start.x, seg.end.x)
  /\ Min2(seg.start.y, seg.end.y) <= p.y /\ p.y <= Max2(seg.start.y, seg.end.y)

Anchored(p, k) ==
  \/ OnBorder(p, rectangles)
  \/ \E j \in 1..Len(result) : j # k /\ OnSegment(p, result[j])

C14_NoDanglingEnd ==
  (Returned /\ AllMerged) =>
    \A k \in 1..Len(result) :
      Anchored(result[k].start, k) /\ Anchored(result[k].end, k)

\* ------------------------------------------------------------------------
\* C15 as stated: once seeding is done, and still when the call returns, for
\* every index i the work rect that matches containing rect i is merged and
\* carries the group id i; no containing rect carries the group id of another
\* rectangle, also when two rectangles have equal containing rects.
Seeded == pc \in {"growing", "groups", "outline", "return", "done"}

C15_SeedsKeepOwnGroup ==
  Seeded =>
    \A i \in 1..Len(cellContainingRects) :
      LET wr == FindIndex(workRects,
                          LAMBDA w : matchesContaining(w, cellContainingRects[i]))
      IN /\ wr # 0
         /\ workRects[wr].merged
         /\ workRects[wr].groupId = i - 1

\* ------------------------------------------------------------------------
\* C16: whenever the growth loop merges a rect, the rect has at least one
\* adjacent rect that is already merged and it receives the group id of one
\* of them: of the only one when there is one, otherwise of the neighbour
\* group whose original rectangle is nearest to the rect by edge-to-edge
\* Manhattan distance, the smallest group id among the nearest.
MergedNeighbours(k) ==
  {j \in 1..Len(workRects) : workRects[j].merged /\ areAdjacent(workRects[k], workRects[j])}

DistanceToGroup(k, g) == edgeToEdgeDistance(workRects[k], cellContents[g + 1])

MergedByLoop(k) == pc = "growing" /\ ~workRects[k].merged /\ workRects'[k].merged

C16_JoinsNearestNeighbourGroup ==
  [][\A k \in 1..Len(workRects) :
       MergedByLoop(k) =>
         LET N == MergedNeighbours(k)
             G == {workRects[j].groupId : j \in N}
             g == workRects'[k].groupId
         IN /\ N # {}
            /\ g \in G /\ g # Null
            /\ \A h \in G :
                 \/ DistanceToGroup(k, g) < DistanceToGroup(k, h)
                 \/ DistanceToGroup(k, g) = DistanceToGroup(k, h) /\ g <= h]_vars

\* the rect the loop has just considered is merged and has merged neighbours
\* of two groups, the group it joined not being the smaller id
C16_Witness ==
  /\ pc = "growing" /\ forPos > 1
  /\ LET k == unmergedRectsProcessingList[forPos - 1]
     IN /\ workRects[k].merged
        /\ \E j \in MergedNeighbours(k) :
             /\ j # k
             /\ workRects[j].groupId < workRects[k].groupId
             /\ DistanceToGroup(k, workRects[k].groupId)
                  < DistanceToGroup(k, workRects[j].groupId)

\* ------------------------------------------------------------------------
\* C17: when the growth loop has ended, a grid rect is merged and has a group
\* id exactly when a chain of pairwise adjacent grid rects links it to a
\* seeded containing rect; no unmerged rect is adjacent to a merged one, and
\* a rect without such a chain has merged = false and groupId = null.
SeedRects ==
  {k \in 1..Len(workRects) :
     \E i \in 1..Len(cellContainingRects) :
       k = FindIndex(workRects, LAMBDA w : matchesContaining(w, cellContainingRects[i]))}

RECURSIVE ChainClosure(_)
\* the rects linked to a rect of S by a chain of adjacent rects
ChainClosure(S) ==
  LET more == {k \in 1..Len(workRects) :
                 k \notin S /\ \E j \in S : areAdjacent(workRects[k], workRects[j])}
  IN IF more = {} THEN S ELSE ChainClosure(S \cup more)

LoopEnded == pc \in {"groups", "outline", "return", "done"}

EndOfPass == pc = "growing" /\ forPos > Len(unmergedRectsProcessingList)

Unmerged == {k \in 1..Len(workRects) : ~workRects[k].merged}

InitiallyUnmerged == Len(workRects) - Cardinality(SeedRects)

PassRules ==
  EndOfPass =>
    /\ Range(remainingAfterPass) = Unmerged
    /\ keepProcessing <=> Len(remainingAfterPass) < Len(unmergedRectsProcessingList)
    /\ pc' = "growing" <=> (keepProcessing /\ remainingAfterPass # <<>>)
    /\ pc' = "growing" =>
         /\ Range(unmergedRectsProcessingList') = Unmerged
         /\ Range(unmergedRectsProcessingList') # Range(unmergedRectsProcessingList)
         /\ Range(unmergedRectsProcessingList') \subseteq Range(unmergedRectsProcessingList)

C18_GrowthLoopTerminates ==
  /\ [][PassRules]_vars
  /\ [](Seeded => (passes <= InitiallyUnmerged + 1 /\ passes < MaxPasses))
  /\ [](pc = "growing" => forPos <= Len(unmergedRectsProcessingList) + 1)

\* the loop has ended after a second pass, which merged what the first left
C18_Witness == LoopEnded /\ passes = 2 /\ Unmerged = {}

\* ------------------------------------------------------------------------
\* C19: in every pass the unmerged rects are considered in ascending order of
\* priority, the least distanceToAnyCell of the valid segments that lie on
\* one of the four edges of the rect, infinite when there is none; and a rect
\* merged earlier in a pass is a merged neighbour for the rects considered
\* after it in that pass.
PriorityOf(k) ==
  LET D == {validSegments[n].distanceToAnyCell :
              n \in {n \in 1..Len(validSegments) : onBoundary(validSegments[n], workRects[k])}}
  IN IF D = {} THEN Infinity ELSE CHOOSE d \in D : \A e \in D : d <= e

ConsideredInOrder ==
  pc = "growing" =>
    \A a \in 1..Len(unmergedRectsProcessingList) :
      \A b \in 1..Len(unmergedRectsProcessingList) :
        a < b => PriorityOf(unmergedRectsProcessingList[a])
                   <= PriorityOf(unmergedRectsProcessingList[b])

\* the step that considers an unmerged rect merges it exactly when one of its
\* adjacent rects is merged by then
ConsiderSeesEarlierMerges ==
  (pc = "growing" /\ forPos <= Len(unmergedRectsProcessingList)) =>
    LET k == unmergedRectsProcessingList[forPos]
    IN ~workRects[k].merged =>
         (workRects'[k].merged <=> MergedNeighbours(k) # {})

C19_AscendingPriority ==
  /\ []ConsideredInOrder
  /\ [][ConsiderSeesEarlierMerges]_vars

\* in the first pass a rect has just been merged whose merged neighbours were
\* all merged earlier in this pass, and the list of the pass holds rects of
\* different priorities
C19_Witness ==
  /\ pc = "growing" /\ passes = 1 /\ forPos > 2
  /\ LET k == unmergedRectsProcessingList[forPos - 1]
     IN /\ workRects[k].merged
        /\ MergedNeighbours(k) \subseteq
             {unmergedRectsProcessingList[a] : a \in 1..(forPos - 2)}
  /\ PriorityOf(unmergedRectsProcessingList[1])
       < PriorityOf(unmergedRectsProcessingList[Len(unmergedRectsProcessingList)])

\* ------------------------------------------------------------------------
\* C20 as stated: the segments buildOutline returns are exactly the shared
\* edge portions of positive length of the pairs of grouped rects of
\* different groups, each emitted once; no returned segment separates two
\* rects of the same group, none involves a rect without a group id, and
\* every pair of rects of different groups that share an edge portion has
\* that portion in the result.
\* the portions of edge the rects a and b share, as segments of the result
SharedEdgePortions(a, b) ==
  LET y0 == Max2(a.y, b.y)
      y1 == Min2(a.y + a.height, b.y + b.height)
      x0 == Max2(a.x, b.x)
      x1 == Min2(a.x + a.width, b.x + b.width)
      vertical ==
        {[start |-> Pt(x + offsetX, y0 + offsetY), end |-> Pt(x + offsetX, y1 + offsetY)] :
           x \in {x \in {a.x + a.width, b.x + b.width} :
                    /\ ExceedsTol(y1 - y0)
                    /\ \/ x = a.x + a.width /\ WithinTol(x - b.x)
                       \/ x = b.x + b.width /\ WithinTol(x - a.x)}}
      horizontal ==
        {[start |-> Pt(x0 + offsetX, y + offsetY), end |-> Pt(x1 + offsetX, y + offsetY)] :
           y \in {y \in {a.y + a.height, b.y + b.height} :
                    /\ ExceedsTol(x1 - x0)
                    /\ \/ y = a.y + a.height /\ WithinTol(y - b.y)
                       \/ y = b.y + b.height /\ WithinTol(y - a.y)}}
  IN vertical \cup horizontal

Grouped == {k \in 1..Len(workRects) : workRects[k].groupId # Null}

BoundaryPortions ==
  UNION {SharedEdgePortions(workRects[i], workRects[j]) :
           <<i, j>> \in {p \in Grouped \X Grouped :
                          workRects[p[1]].groupId # workRects[p[2]].groupId}}

InsidePortions ==
  UNION {SharedEdgePortions(workRects[i], workRects[j]) :
           <<i, j>> \in {p \in Grouped \X Grouped :
                          p[1] # p[2] /\ workRects[p[1]].groupId = workRects[p[2]].groupId}}

OutlineBuilt == pc \in {"return", "done"}

C20_OutlineIsGroupBoundary ==
  OutlineBuilt =>
    /\ {[start |-> outlineLines[k].start, end |-> outlineLines[k].end] :
          k \in 1..Len(outlineLines)} = BoundaryPortions
    /\ Len(outlineLines) = Cardinality(BoundaryPortions)
    /\ \A k \in 1..Len(outlineLines) :
         [start |-> outlineLines[k].start, end |-> outlineLines[k].end] \notin InsidePortions

\* ------------------------------------------------------------------------
\* The caller hands the returned list to the segment merger
\* (src/unnamed/part_008 lines 113-191), which works on the caller's array.
\* ------------------------------------------------------------------------
MergeAligned ==
  /\ pc = "done"
  /\ LET r == mergeAlignedSegments(result)
     IN /\ mergedSegments' = r.mergedSegments
        /\ result' = r.segments
  /\ pc' = "merged"
  /\ UNCHANGED <<callerVars, thrown, prepVars, lineVars, gridVars, loopVars, groupVars,
                 outlineLines>>

NextAligned ==
  \/ Next
  \/ MergeAligned

\* one call on two rectangles, the returned list then passed to the merger
SpecAligned == InitPair /\ [][NextAligned]_vars

\* C21: no stage changes the data it receives. Every step of computeSegments,
\* buildGrid, mergeGridRects, buildOutline and mergeAlignedSegments leaves the
\* field values of its arguments as they were: midlines, intersections and cell
\* contents; all segments; valid segments, grid rects and containing rects;
\* the grouped rects; and the list of segments passed to the merger.
C21_StagesLeaveArgumentsAlone ==
  [][/\ (pc = "segments" => UNCHANGED <<midlines, intersections, cellContents>>)
     /\ (pc = "grid" =>
           UNCHANGED <<allSegments, cellContents, containerWidth, containerHeight>>)
     /\ (pc \in {"merge", "growing", "groups"} =>
           UNCHANGED <<validSegments, gridRects, cellContainingRects, cellContents>>)
     /\ (pc = "outline" => UNCHANGED <<groupedRects, offsetX, offsetY>>)
     /\ (pc = "done" /\ pc' = "merged" => result' = result)]_vars

\* ------------------------------------------------------------------------
\* Degenerate sub-segments (src/lib/computeSegments.ts lines 24-39): two
\* coincident midlines cross a perpendicular midline at the same point, and
\* the sub-segment between the two equal intersection points has no length.
\* ------------------------------------------------------------------------
GridBuilt == pc \notin {"idle", "midlines", "intersections", "segments", "grid"}

ZeroLength(seg) == seg.start = seg.end

ProperSegments(segs) == Filter(segs, LAMBDA seg : ~ZeroLength(seg))

\* C22: zero-length sub-segments are filtered out. Once buildGrid has
\* returned, no valid segment has its start equal to its end, and the grid
\* coordinates are those the valid segments of positive length give.
C22_ZeroLengthFilteredOut ==
  GridBuilt =>
    /\ \A k \in 1..Len(validSegments) : ~ZeroLength(validSegments[k])
    /\ gridXs(validSegments, containerWidth)
         = gridXs(ProperSegments(validSegments), containerWidth)
    /\ gridYs(validSegments, containerHeight)
         = gridYs(ProperSegments(validSegments), containerHeight)

\* ------------------------------------------------------------------------
\* Three rectangles of width one and any height, the first at the origin:
\* wide enough for a midline that runs through a rectangle from side to side
\* ------------------------------------------------------------------------
ColumnRects ==
  {r \in RectsOn(0..MaxX, 0..MaxY) : IsValidRect(r) /\ r.maxX = r.minX + 1}

ColumnInputs ==
  {l \in [1..3 -> ColumnRects] :
     l[1].minX = 0 /\ l[1].minY = 0 /\ PairwiseDisjoint(l)}

InitColumns == InitWith(ColumnInputs)

SpecColumns == InitColumns /\ [][Next]_vars

\* ------------------------------------------------------------------------
\* The validity filter of buildGrid (src/unnamed/part_009 lines 15-19)
\* ------------------------------------------------------------------------
\* the axis-aligned segment seg has a point strictly inside the rectangle r
PassesInside(seg, r) ==
  /\ Min2(seg.start.x, seg.end.x) < r.x + r.width
  /\ Max2(seg.start.x, seg.end.x) > r.x
  /\ Min2(seg.start.y, seg.end.y) < r.y + r.height
  /\ Max2(seg.start.y, seg.end.y) > r.y

EntersSomeRect(seg) ==
  \E c \in 1..Len(cellContents) : PassesInside(seg, cellContents[c])

\* C23: once buildGrid has returned, no valid segment has a point strictly
\* inside an input rectangle, and no sub-segment that has such a point is
\* among the valid segments.
C23_ValidSegmentsAvoidInteriors ==
  GridBuilt =>
    /\ \A k \in 1..Len(validSegments) : ~EntersSomeRect(validSegments[k])
    /\ \A k \in 1..Len(allSegments) :
         EntersSomeRect(allSegments[k]) => allSegments[k] \notin Range(validSegments)

\* a sub-segment that crosses a rectangle from side to side, both of its
\* ends outside the rectangle, has been discarded
C23_Witness ==
  /\ GridBuilt
  /\ \E k \in 1..Len(allSegments) : \E c \in 1..Len(cellContents) :
       /\ PassesInside(allSegments[k], cellContents[c])
       /\ ~pointInRect(allSegments[k].start, cellContents[c])
       /\ ~pointInRect(allSegments[k].end, cellContents[c])
       /\ allSegments[k] \notin Range(validSegments)

\* ------------------------------------------------------------------------
\* computeMidlines (src/lib/computeMidlines.ts), pair by pair
\* ------------------------------------------------------------------------
MidlinesBuilt == pc \notin {"idle", "midlines"}

\* the positions in midlines of the midlines of type t of the pair (i, j)
MidlinesOf(i, j, t) ==
  {k \in 1..Len(midlines) :
     midlines[k].cellIds = <<i - 1, j - 1>> /\ midlines[k].type = t}

\* C24: once computeMidlines has returned, every midline belongs to a pair
\* i < j of rectangles; a pair has one vertical midline when it has a strict
\* gap on the x axis and none otherwise, at the midpoint of the gap and from
\* y = 0 to containerHeight; it has one horizontal midline when it has a
\* strict gap on the y axis and none otherwise, at the midpoint of that gap
\* and from x = 0 to containerWidth.
C24_MidlinesPerPair ==
  MidlinesBuilt =>
    /\ \A k \in 1..Len(midlines) :
         /\ midlines[k].type \in {"vertical", "horizontal"}
         /\ \E j \in 1..Len(rectangles) : \E i \in 1..(j - 1) :
              midlines[k].cellIds = <<i - 1, j - 1>>
    /\ \A j \in 1..Len(rectangles) : \A i \in 1..(j - 1) :
         LET r == rectangles[i]
             q == rectangles[j]
         IN /\ Cardinality(MidlinesOf(i, j, "vertical")) = (IF GapX(r, q) THEN 1 ELSE 0)
            /\ \A k \in MidlinesOf(i, j, "vertical") :
                 /\ midlines[k].start = Pt(GapMidX(r, q) - offsetX, 0)
                 /\ midlines[k].end = Pt(GapMidX(r, q) - offsetX, containerHeight)
            /\ Cardinality(MidlinesOf(i, j, "horizontal")) = (IF GapY(r, q) THEN 1 ELSE 0)
            /\ \A k \in MidlinesOf(i, j, "horizontal") :
                 /\ midlines[k].start = Pt(0, GapMidY(r, q) - offsetY)
                 /\ midlines[k].end = Pt(containerWidth, GapMidY(r, q) - offsetY)

\* three rectangles: a pair with a gap on both axes and so two midlines, a
\* pair with a gap on one axis, and a pair that touches and has no midline
C24_Witness ==
  /\ MidlinesBuilt
  /\ Len(rectangles) = 3
  /\ \E i, j \in 1..3 :
       /\ i < j /\ GapX(rectangles[i], rectangles[j]) /\ GapY(rectangles[i], rectangles[j])
       /\ MidlinesOf(i, j, "vertical") # {} /\ MidlinesOf(i, j, "horizontal") # {}
  /\ \E i, j \in 1..3 :
       /\ i < j /\ GapX(rectangles[i], rectangles[j]) /\ ~GapY(rectangles[i], rectangles[j])
  /\ \E i, j \in 1..3 :
       /\ i < j /\ ~GapX(rectangles[i], rectangles[j]) /\ ~GapY(rectangles[i], rectangles[j])
       /\ MidlinesOf(i, j, "vertical") = {} /\ MidlinesOf(i, j, "horizontal") = {}

\* ------------------------------------------------------------------------
\* The grid of buildGrid (src/unnamed/part_009 lines 21-102)
\* ------------------------------------------------------------------------
Box(g) == [x |-> g.x, y |-> g.y, width |-> g.width, height |-> g.height]

\* the cells of the coordinate grid: consecutive grid coordinates on each axis
CoordinateCells ==
  LET xs == gridXs(validSegments, containerWidth)
      ys == gridYs(validSegments, containerHeight)
  IN {[x |-> xs[i], y |-> ys[j],
       width |-> xs[i + 1] - xs[i], height |-> ys[j + 1] - ys[j]] :
        i \in 1..(Len(xs) - 1), j \in 1..(Len(ys) - 1)}

\* the grid rects that are cells of the grid, not containing rects
FreeCells == {k \in 1..Len(gridRects) : gridRects[k].cellId[1] = "gridRect"}

Inside(c, g) ==
  /\ g.x <= c.x /\ c.x + c.width <= g.x + g.width
  /\ g.y <= c.y /\ c.y + c.height <= g.y + g.height

FreeCellsAreTheEmptyCells ==
  {Box(gridRects[k]) : k \in FreeCells}
    = {c \in CoordinateCells :
         \A k \in 1..Len(cellContents) : ~PositiveOverlap(c, cellContents[k])}

FreeCellsAvoidContainingRects ==
  \A k \in FreeCells : \A c \in 1..Len(cellContainingRects) :
    ~PositiveOverlap(gridRects[k], cellContainingRects[c])

GridRectsCoverContainer ==
  /\ \A c \in CoordinateCells :
       \E k \in 1..Len(gridRects) : Inside(c, gridRects[k])
  /\ \A k \in 1..Len(gridRects) :
       \/ k \in FreeCells
       \/ \E c \in 1..Len(cellContainingRects) :
            Box(gridRects[k]) = Box(cellContainingRects[c])

GridRectsDisjoint ==
  \A k \in 1..Len(gridRects) : \A h \in 1..Len(gridRects) :
    k # h => ~PositiveOverlap(gridRects[k], gridRects[h])

\* C25: the grid rects returned by buildGrid tile the container. The free
\* cells are exactly the cells of the coordinate grid that overlap no input
\* rectangle, no free cell overlaps a containing rect, the free cells and the
\* containing rects cover the container, and no two grid rects overlap.
C25_GridRectsTileContainer ==
  (GridBuilt /\ Len(rectangles) > 0) =>
    /\ FreeCellsAreTheEmptyCells
    /\ FreeCellsAvoidContainingRects
    /\ GridRectsCoverContainer
    /\ GridRectsDisjoint

\* ------------------------------------------------------------------------
\* The containing rects of buildGrid (src/unnamed/part_009 lines 39-66)
\* ------------------------------------------------------------------------
GridCoordsX == Range(gridXs(validSegments, containerWidth))
GridCoordsY == Range(gridYs(validSegments, containerHeight))

\* C26: with the default container, once buildGrid has returned, the
\* containing rect of each input rectangle encloses the rectangle, has its
\* four edges on grid coordinates, and is minimal: no grid coordinate lies
\* between an edge of the containing rect and the corresponding edge of the
\* rectangle, nor on that edge of the rectangle unless it is the edge of the
\* containing rect too.
C26_ContainingRectMinimal ==
  GridBuilt =>
    /\ Len(cellContainingRects) = Len(cellContents)
    /\ \A k \in 1..Len(cellContents) :
         LET c == cellContents[k]
             r == cellContainingRects[k]
         IN /\ Inside(c, r)
            /\ r.x \in GridCoordsX /\ r.x + r.width \in GridCoordsX
            /\ r.y \in GridCoordsY /\ r.y + r.height \in GridCoordsY
            /\ ~\E v \in GridCoordsX : r.x < v /\ v <= c.x
            /\ ~\E v \in GridCoordsX : c.x + c.width <= v /\ v < r.x + r.width
            /\ ~\E v \in GridCoordsY : r.y < v /\ v <= c.y
            /\ ~\E v \in GridCoordsY : c.y + c.height <= v /\ v < r.y + r.height

\* a containing rect with its left edge inside the container, away from
\* the edge of its rectangle, and one that reaches the top of the container
\* from a rectangle that starts lower, no grid coordinate lying between
C26_Witness ==
  /\ GridBuilt
  /\ \E k \in 1..Len(cellContents) :
       /\ 0 < cellContainingRects[k].x
       /\ cellContainingRects[k].x < cellContents[k].x
  /\ \E k \in 1..Len(cellContents) :
       /\ cellContainingRects[k].y = 0
       /\ 0 < cellContents[k].y

\* ------------------------------------------------------------------------
\* The caller calls with two rectangles, the first at the origin, then moves
\* every rectangle by the same offset and calls again.
\* ------------------------------------------------------------------------
ShiftInputs ==
  {l \in [1..2 -> ColumnRects] :
     l[1].minX = 0 /\ l[1].minY = 0 /\ PairwiseDisjoint(l)}

Shifts ==
  {d \in {0 - MaxShift, 0, 1} \X {0 - MaxShift, 0, 1} : d # <<0, 0>>}

Translate(l, d) ==
  [k \in 1..Len(l) |->
     [minX |-> l[k].minX + d[1], minY |-> l[k].minY + d[2],
      maxX |-> l[k].maxX + d[1], maxY |-> l[k].maxY + d[2]]]

\* the lines moved by d input units
TranslateLines(lines, d) ==
  [k \in 1..Len(lines) |->
     [start |-> Pt(lines[k].start.x + d[1] * SCALE, lines[k].start.y + d[2] * SCALE),
      end |-> Pt(lines[k].end.x + d[1] * SCALE, lines[k].end.y + d[2] * SCALE)]]

InitShift == InitWith(ShiftInputs)

CallShifted ==
  /\ pc = "done"
  /\ seen = <<>>
  /\ seen' = <<[rects |-> passed, result |-> result]>>
  /\ \E d \in Shifts : rectangles' = Translate(rectangles, d)
  /\ passed' = rectangles'
  /\ pc' = "idle"
  /\ UNCHANGED <<thrown, mergedSegments, prepVars, lineVars, gridVars, loopVars, groupVars,
                 outlineLines, result>>

NextShift ==
  \/ Next
  \/ CallShifted

SpecShift == InitShift /\ [][NextShift]_vars

\* C27: when the second call has returned, its rectangles are those of the
\* first call moved by an offset (dx, dy), and its result is the result of
\* the first call with every segment moved by (dx, dy): as many segments, in
\* the same order, nothing else changed.
C27_TranslationMovesResult ==
  (pc = "done" /\ Len(seen) = 1) =>
    \E d \in Shifts :
      /\ passed = Translate(seen[1].rects, d)
      /\ result = TranslateLines(seen[1].result, d)

\* the second call has returned segments for rectangles that lie on both
\* sides of the y axis, and a segment starts at a negative coordinate
C27_Witness ==
  /\ pc = "done" /\ Len(seen) = 1
  /\ result # <<>>
  /\ \E k \in 1..Len(passed) : passed[k].minX < 0
  /\ \E k \in 1..Len(passed) : passed[k].maxX > 0
  /\ \E k \in 1..Len(result) : result[k].start.x < 0 \/ result[k].start.y < 0

\* ------------------------------------------------------------------------
\* Four unit squares, the first at the origin: enough for a column of three
\* squares that touch, with a fourth beside it
\* ------------------------------------------------------------------------
QuadRects ==
  {r \in RectsOn(0..MaxX, 0..MaxY) : r.maxX = r.minX + 1 /\ r.maxY = r.minY + 1}

QuadInputs ==
  {l \in [1..4 -> QuadRects] :
     l[1].minX = 0 /\ l[1].minY = 0 /\ PairwiseDisjoint(l)}

InitQuad == InitWith(QuadInputs)

SpecQuad == InitQuad /\ [][Next]_vars

\* ------------------------------------------------------------------------
\* The returned segments and the interiors of the rectangles
\* ------------------------------------------------------------------------
\* C28: for pairwise non-overlapping rectangles, no returned segment has a
\* point strictly inside an input rectangle.
C28_ResultAvoidsInteriors ==
  (pc = "done" /\ PairwiseDisjoint(rectangles)) =>
    \A k \in 1..Len(result) : \A i \in 1..Len(rectangles) :
      ~PassesInside(result[k], toCellContent(rectangles[i]))

\* ------------------------------------------------------------------------
\* The two marks of a work rect: merged and groupId (src/lib/mergeGrid.ts)
\* ------------------------------------------------------------------------
\* C29: in every state from the seeding to the return, after each rect the
\* loop has dealt with, a work rect is merged exactly when its groupId is not
\* null, and a groupId that is not null is the index of a rectangle, 0 to
\* N - 1; the rects handed to buildOutline are exactly the merged rects.
C29_MergedIffGroupId ==
  /\ Seeded =>
       \A k \in 1..Len(workRects) :
         /\ workRects[k].merged <=> workRects[k].groupId # Null
         /\ workRects[k].groupId # Null =>
              workRects[k].groupId \in 0..(Len(rectangles) - 1)
  /\ pc \in {"outline", "return", "done"} =>
       groupedRects = Filter(workRects, LAMBDA r : r.merged)

\* in the middle of the loop: a rect the loop has merged, with a group id,
\* beside a rect that is not merged yet
C29_Witness ==
  /\ pc = "growing"
  /\ \E k \in 1..Len(workRects) :
       /\ k \notin SeedRects
       /\ workRects[k].merged /\ workRects[k].groupId # Null
  /\ \E k \in 1..Len(workRects) :
       ~workRects[k].merged /\ workRects[k].groupId = Null

\* ------------------------------------------------------------------------
\* Finality of the assignment in the growth loop (src/lib/mergeGrid.ts 94-150)
\* ------------------------------------------------------------------------
\* C30: once a work rect is merged, no later step of the growth loop, in the
\* same pass or in a later one, changes its merged flag or its groupId; the
\* work rects stay the same rects in the same places.
C30_AssignmentIsFinal ==
  [][Seeded =>
       /\ Len(workRects') = Len(workRects)
       /\ \A k \in 1..Len(workRects) :
            workRects[k].merged =>
              /\ workRects'[k].merged
              /\ workRects'[k].groupId = workRects[k].groupId
              /\ workRects'[k].cellId = workRects[k].cellId]_vars

\* the end of the loop after a second pass: two rects the loop has merged,
\* in different groups
C30_Witness ==
  /\ LoopEnded /\ passes = 2
  /\ \E k, j \in 1..Len(workRects) :
       /\ k \notin SeedRects /\ j \notin SeedRects
       /\ workRects[k].merged /\ workRects[j].merged
       /\ workRects[k].groupId # workRects[j].groupId

====
